---- MODULE Spec2Model ----
(***************************************************************************)
(* A model of slipstream-rust: QUIC-over-DNS tunnel.                       *)
(*                                                                         *)
(*   - the fragmentation library (slipstream-dns/src/fragment.rs):         *)
(*     fragment_packet, parse_fragment, is_fragmented, FragmentBuffer;     *)
(*   - the client's resolver list (main.rs build_resolvers, dns/resolver.rs*)
(*     resolve_resolvers);                                                 *)
(*   - the client's send path, receive path and stream forwarding          *)
(*     (runtime/mod.rs run_client / handle_command, streams.rs);           *)
(*   - the server's query/response loop (slipstream-server/src/server.rs). *)
(*                                                                         *)
(* Bytes are naturals 0..255, byte strings are sequences of bytes.  An     *)
(* Option<T> is None or Some(v).                                           *)
(***************************************************************************)
EXTENDS Naturals, Integers, Sequences, FiniteSets, TLC

VARIABLES
    \* ---- fragmentation library -------------------------------------
    fragments,      \* FragmentBuffer.fragments : packet_id -> FragmentEntry
    now,            \* the clock read by Instant::now() / elapsed(), in seconds
    op,             \* the last operation performed (history)
    arg,            \* the argument of the last operation (history)
    result,         \* the value returned by the last operation (history)
    before,         \* FragmentBuffer.fragments before the last operation (history)
    \* ---- fragment / reassemble scenario ----------------------------
    in_packet,      \* the packet handed to fragment_packet
    in_id,          \* its packet id
    in_max_payload, \* max_payload
    envelopes,      \* what fragment_packet returned
    delivered,      \* indices of the envelopes fed to receive_fragment, in call order
    results,        \* the value returned by each receive_fragment call, in call order
    n_originals,    \* the packets the sender has passed to fragment_packet
    n_net,          \* the envelopes the sender has sent as DNS queries
    n_emitted,      \* the packets receive_fragment has emitted
    \* ---- client send path (run_client) -----------------------------
    c_packet_id,    \* packet_id: the id the next QUIC packet is fragmented with
    c_max_payload,  \* max_payload_len_for_domain(config.domain)
    c_status,       \* "running", or "failed" once run_client returned an error
    c_sends,        \* packets taken from poll_send so far, counted up to MaxSends (history)
    c_last,         \* the last packet taken from poll_send: the packet, the id it was
                    \* fragmented with, and the fragments sent as DNS queries
    c_pending,      \* PacketSender.pending_packets of the connection, oldest first
    c_polled,       \* every packet conn.poll_send has returned, in order
    c_transmitted,  \* every packet the loop has sent as DNS queries, in order
    c_packets,      \* the packets of this iteration's `packets.into_iter().take(..)`
                    \* the loop has not sent yet
    c_frags,        \* the fragments of the current packet the loop `for fragment in
                    \* fragments` has not sent yet
    \* ---- client receive path (run_client) --------------------------
    r_pc,           \* "select": awaiting tokio::select!; "post": past it, in the rest
                    \* of the loop body
    r_quic,         \* the packets passed to conn.recv in this iteration, in order
    \* ---- server loop (run_server) ----------------------------------
    s_pc,           \* "select": at the select of the loop; "respond": in the loop
                    \* over the slots; "failed": run_server returned Err
    s_burst,        \* datagrams read so far in this iteration
    s_log,          \* every datagram the server has read, with what QUIC did with it
    s_slots,        \* the slots of this iteration that still await their response
    s_sent,         \* every DNS response passed to udp.send_to, in order
    s_shutdown,     \* SHOULD_SHUTDOWN, the flag SIGTERM sets
    s_exit,         \* how run_server returned: the exit code and the failing call
    s_hs,           \* what the last call of handle_shutdown returned: "none" before
                    \* the first call, "declined" (false) or "stopped" (true)
    \* ---- client stream forwarding (streams.rs, run_client) ---------
    t_accepted,     \* TCP connections accepted so far
    t_cmds,         \* the command channel (command_tx / command_rx), oldest first
    t_streams,      \* keys of run_client's `streams` map
    t_conn,         \* stream id -> the TCP connection it forwards (0: not opened)
    t_reader,       \* stream id -> state of its TCP reader task
    t_rd,           \* stream id -> bytes its reader task has read from TCP
    t_passed,       \* stream id -> bytes passed to conn.stream_write, in call order
    t_returned,     \* stream id -> bytes conn.stream_read has returned so far
    t_fin,          \* stream id -> conn.stream_read has returned fin
    t_wch,          \* stream id -> the writer channel (write_tx / data_rx), oldest first
    t_writer,       \* stream id -> state of its TCP writer task
    t_written,      \* stream id -> bytes written to the TCP connection
    t_inwrite,      \* stream id -> the rest of the chunk its writer task is in write_all with
    t_term,         \* stream id -> terminal commands its reader task has sent
    t_late,         \* stream id -> commands its reader task sent after a terminal one
    t_retries,      \* stream id -> reads of its reader task that were Interrupted
    t_queued,       \* stream id -> queued_bytes of its StreamState
    t_handed,       \* stream id -> bytes the loop placed on its writer channel
    t_drained,      \* stream id -> bytes the StreamWriteDrained commands handled for it reported
    \* ---- client start-up (main.rs, dns/resolver.rs) ----------------
    g_matches,      \* the parsed command line: the options in textual order
    g_built,        \* the result of build_resolvers ("pending" before the call)
    v_specs,        \* the argument of resolve_resolvers
    v_resolved,     \* the result of resolve_resolvers ("pending" before the call)
    \* ---- client process (main.rs) -----------------------------------
    m_argv,         \* the command line: options as typed, in textual order
    m_pc,           \* where main stands: "start", "build", "run", "loop", "exited"
    m_exit,         \* the exit of the process: its code and what caused it
    \* ---- client paths (run_client, runtime_tquic/path.rs) -----------
    p_resolvers,    \* run_client's `resolvers`: added and path_id_tquic of each
    p_ready,        \* run_client's `ready`
    p_probed,       \* resolver index -> what probe_path returned for it
    p_events,       \* ConnectionState.path_events: the events not yet drained
    p_conn,         \* the QUIC connection: "handshake" or "ready"
    p_calls,        \* the positions probe_path was called for, in call order
    p_ticks,        \* iterations of the loop completed, counted up to MaxTicks
    p_pc,           \* where the iteration stands: "top" or "body"
    \* ---- client loop: command drain and poll_send (run_client) ------
    k_pc,           \* where the iteration stands: "select", "read" (past the
                    \* select, reading the readable streams), "drain", or "send"
                    \* (past conn.poll_send, sending the queries)
    k_read,         \* the streams `for stream_id in conn.readable_streams()` has
                    \* read in this iteration
    k_queued,       \* commands that were in the channel when the drain started
                    \* and are not handled yet, oldest first
    k_handled,      \* how many of those the drain has handled
    k_polls,        \* per conn.poll_send call: k_queued and k_handled at the call
    k_ticks,        \* iterations of the loop completed
    \* ---- client loop: the end of the connection (run_client) -------
    e_pc,           \* where run_client stands: "top", "select", "drain", "send",
                    \* "close", "returned"
    e_closing,      \* ConnectionState.closing of the QUIC connection
    e_udp,          \* DNS responses waiting in the UDP socket
    e_cmds,         \* commands waiting in the command channel
    e_arrived,      \* responses and commands that have arrived so far
    e_after,        \* commands and datagrams handled since closing was set
    e_close_calls,  \* calls of conn.close
    e_ret,          \* what run_client returned
    \* ---- QUIC server wrapper (slipstream-quic server.rs) -----------
    w_connections,  \* ServerState.connections: conn id -> [ready, streams]
    w_endpoint,     \* the connections the endpoint holds: created, and not yet
                    \* reported by on_conn_closed
    w_established,  \* the connections established and not closed since (history)
    w_closed,       \* the connections closed and not established since (history)
    w_created       \* conn id -> streams created and not closed since the
                    \* connection was last closed (history)

fragVars == <<fragments, now, op, arg, result, before>>
rtVars == <<in_packet, in_id, in_max_payload, envelopes, delivered, results,
            n_originals, n_net, n_emitted>>
sendVars == <<c_packet_id, c_max_payload, c_status, c_sends, c_last,
              c_pending, c_polled, c_transmitted, c_packets, c_frags>>
recvVars == <<r_pc, r_quic>>
srvVars == <<s_pc, s_burst, s_log, s_slots, s_sent, s_shutdown, s_exit, s_hs>>
strVars == <<t_accepted, t_cmds, t_streams, t_conn, t_reader, t_rd, t_passed,
             t_returned, t_fin, t_wch, t_writer, t_written, t_inwrite,
             t_term, t_late, t_retries, t_queued, t_handed, t_drained>>
cfgVars == <<g_matches, g_built, v_specs, v_resolved>>
mainVars == <<m_argv, m_pc, m_exit>>
pathVars == <<p_resolvers, p_ready, p_probed, p_events, p_conn, p_calls, p_ticks,
             p_pc>>
tickVars == <<k_pc, k_read, k_queued, k_handled, k_polls, k_ticks>>
closeVars == <<e_pc, e_closing, e_udp, e_cmds, e_arrived, e_after, e_close_calls, e_ret>>
wrapVars == <<w_connections, w_endpoint, w_established, w_closed, w_created>>
vars == <<fragVars, rtVars, sendVars, recvVars, srvVars, strVars, cfgVars, mainVars, pathVars, tickVars, closeVars, wrapVars>>

-----------------------------------------------------------------------------
(* Option<T> *)
None == [tag |-> "None"]
Some(v) == [tag |-> "Some", val |-> v]
IsSome(o) == o.tag = "Some"

Min(a, b) == IF a <= b THEN a ELSE b
Max(a, b) == IF a >= b THEN a ELSE b
CeilDiv(a, b) == (a + b - 1) \div b

-----------------------------------------------------------------------------
(* fragment.rs: constants *)
FRAGMENT_MAGIC == 83
FRAGMENT_HEADER_SIZE == 5
FRAGMENT_TIMEOUT_SECS == 5
\* `.min(255)` / `.take(255)` in fragment_packet
MAX_FRAGMENTS == 255
\* widths of u8 and u16
U8 == 256
U16 == 65536

\* (mutant) the packet id written low byte first
to_le_bytes(x) == << x % U8, (x \div U8) % U8 >>
\* u16::to_be_bytes
to_be_bytes(x) == << (x \div U8) % U8, x % U8 >>
\* u16::from_be_bytes
from_be_bytes(hi, lo) == (hi * U8 + lo) % U16

\* packet.chunks(chunk_size): the i-th (1-based) chunk, and the number of chunks
Chunk(packet, chunk_size, i) ==
    SubSeq(packet, (i - 1) * chunk_size + 1, Min(i * chunk_size, Len(packet)))
NumChunks(packet, chunk_size) == CeilDiv(Len(packet), chunk_size)

\* one envelope: magic | packet_id BE | frag_num | total | payload
Envelope(packet_id, frag_num, total, payload) ==
    <<FRAGMENT_MAGIC>> \o to_be_bytes(packet_id) \o <<frag_num, total>> \o payload

\* fragment_packet(packet, packet_id, max_payload) -> Vec<Vec<u8>>
fragment_packet(packet, packet_id, max_payload) ==
    IF max_payload <= FRAGMENT_HEADER_SIZE THEN <<>>
    ELSE LET chunk_size == max_payload - FRAGMENT_HEADER_SIZE IN
         IF Len(packet) <= chunk_size
         THEN << Envelope(packet_id, 0, 1, packet) >>
         ELSE LET n == NumChunks(packet, chunk_size)
                  total == Min(n, MAX_FRAGMENTS) % U8
              IN [i \in 1..Min(n, MAX_FRAGMENTS) |->
                     Envelope(packet_id, (i - 1) % U8, total, Chunk(packet, chunk_size, i))]

\* parse_fragment(data) -> Option<(packet_id, frag_num, total, payload)>
parse_fragment(data) ==
    IF Len(data) < FRAGMENT_HEADER_SIZE THEN None
    ELSE IF data[1] # FRAGMENT_MAGIC THEN None
    ELSE Some([packet_id |-> from_be_bytes(data[2], data[3]),
               frag_num  |-> data[4],
               total     |-> data[5],
               payload   |-> SubSeq(data, FRAGMENT_HEADER_SIZE + 1, Len(data))])

\* (mutant) the length test is off by one
is_fragmented_Short(data) ==
    IF Len(data) < FRAGMENT_HEADER_SIZE - 1 THEN FALSE
    ELSE data[1] = FRAGMENT_MAGIC
\* is_fragmented(data) -> bool
is_fragmented(data) ==
    IF Len(data) < FRAGMENT_HEADER_SIZE THEN FALSE
    ELSE data[1] = FRAGMENT_MAGIC

-----------------------------------------------------------------------------
(* FragmentBuffer *)

\* FragmentBuffer::new(): no pending entry
EmptyBuffer == << >>

\* HashMap::remove
MapRemove(m, k) == [x \in (DOMAIN m) \ {k} |-> m[x]]
\* HashMap::insert
MapInsert(m, k, v) == [x \in (DOMAIN m) \cup {k} |-> IF x = k THEN v ELSE m[x]]

\* the entry or_insert_with creates
NewEntry(total, t) ==
    [data |-> [i \in 1..total |-> None], total |-> total, created |-> t, received |-> 0]

\* (mutant) parts concatenated last to first
RECURSIVE ReassembleReversed(_, _)
ReassembleReversed(data, i) ==
    IF i > Len(data) THEN <<>>
    ELSE ReassembleReversed(data, i + 1) \o data[i].val
\* entry.data.iter().flat_map(|f| f.unwrap()).collect(): parts concatenated in order
RECURSIVE Reassemble(_, _)
Reassemble(data, i) ==
    IF i > Len(data) THEN <<>>
    ELSE data[i].val \o Reassemble(data, i + 1)

\* (mutant) a fragment replaces the bytes of a slot that is already filled
StoreFragmentOverwrite(entry, idx, payload) ==
    IF idx < Len(entry.data)
    THEN [entry EXCEPT !.data[idx + 1] = Some(payload),
                       !.received = IF entry.data[idx + 1] = None
                                    THEN (entry.received + 1) % U8 ELSE entry.received]
    ELSE entry
\* "Store fragment if not already received"
StoreFragment(entry, idx, payload) ==
    IF idx < Len(entry.data) /\ entry.data[idx + 1] = None
    THEN [entry EXCEPT !.data[idx + 1] = Some(payload),
                       !.received = (entry.received + 1) % U8]
    ELSE entry

\* (mutant) a fragment with a mismatched total discards the accumulated entry
receive_fragment_DropEntry(buf, data, t) ==
    LET parsed == parse_fragment(data) IN
    IF parsed = None THEN [buf |-> buf, ret |-> None]
    ELSE LET p == parsed.val IN
    IF p.total = 0 \/ p.frag_num >= p.total THEN [buf |-> buf, ret |-> None]
    ELSE LET buf1 == IF p.packet_id \in DOMAIN buf THEN buf
                     ELSE MapInsert(buf, p.packet_id, NewEntry(p.total, t))
         IN
    IF buf1[p.packet_id].total # p.total
    THEN [buf |-> MapRemove(buf1, p.packet_id), ret |-> None]
    ELSE LET entry == StoreFragment(buf1[p.packet_id], p.frag_num, p.payload) IN
    IF entry.received = entry.total
    THEN [buf |-> MapRemove(buf1, p.packet_id), ret |-> Some(Reassemble(entry.data, 1))]
    ELSE [buf |-> MapInsert(buf1, p.packet_id, entry), ret |-> None]

\* FragmentBuffer::receive_fragment(&mut self, data) at time t:
\* the buffer afterwards and the value returned
receive_fragment(buf, data, t) ==
    LET parsed == parse_fragment(data) IN
    IF parsed = None THEN [buf |-> buf, ret |-> None]
    ELSE LET p == parsed.val IN
    IF p.total = 0 \/ p.frag_num >= p.total THEN [buf |-> buf, ret |-> None]
    ELSE LET buf1 == IF p.packet_id \in DOMAIN buf THEN buf
                     ELSE MapInsert(buf, p.packet_id, NewEntry(p.total, t))
         IN
    IF buf1[p.packet_id].total # p.total THEN [buf |-> buf1, ret |-> None]
    ELSE LET entry == StoreFragment(buf1[p.packet_id], p.frag_num, p.payload) IN
    IF entry.received = entry.total
    THEN [buf |-> MapRemove(buf1, p.packet_id), ret |-> Some(Reassemble(entry.data, 1))]
    ELSE [buf |-> MapInsert(buf1, p.packet_id, entry), ret |-> None]

\* FragmentBuffer::cleanup_stale(&mut self) at time t (timeout_secs = 5)
cleanup_stale(buf, t) ==
    LET keep == {k \in DOMAIN buf : t - buf[k].created < FRAGMENT_TIMEOUT_SECS}
    IN [k \in keep |-> buf[k]]

\* FragmentBuffer::pending_count
pending_count(buf) == Cardinality(DOMAIN buf)

-----------------------------------------------------------------------------
(* Inputs *)

\* longest packet of the exhaustively enumerated small packets
MaxLen == 3
\* last clock value the model explores
MaxTime == 6
\* packets ClientSendSpec takes from poll_send
MaxSends == 3
\* datagrams read in one loop iteration (packet_loop_recv_max)
MaxBurst == 2
\* longest byte string given to is_fragmented in DetectSpec
MaxDetectLen == 6
\* largest congestion window and mtu of the exhaustive inputs of PollBudgetSpec
MaxCwnd == 24
MaxMtu == 6
\* datagrams the server reads in ServerSpec
MaxQueries == 3
\* longest chunk a TCP read, a stream_read or a TCP write handles in StreamSpec:
\* the whole of the longest modelled input
MaxChunk == 3
MaxRetries == 1
\* the size of the reader task's buffer
STREAM_READ_CHUNK_BYTES == 4096
\* options on the command line in BuildResolversSpec
MaxArgs == 4
\* resolver specs passed to resolve_resolvers in ResolveSpec
MaxSpecs == 3

SmallBytes == {0, FRAGMENT_MAGIC, 255}
SeqsUpTo(S, n) == UNION {[1..k -> S] : k \in 0..n}
\* the packet 0, 1, 2, ... of length n (bytes wrap at 256)
Ramp(n) == [i \in 1..n |-> (i - 1) % U8]
Hello == <<104, 101, 108, 108, 111>>

SmallInputs ==
    [packet : SeqsUpTo(SmallBytes, MaxLen), id : {0, 258, 65535}, max_payload : {5, 6, 7}]
\* the inputs of the unit tests of fragment.rs
TestInputs ==
    { [packet |-> Ramp(100), id |-> 1, max_payload |-> 20],
      [packet |-> Hello, id |-> 42, max_payload |-> 100] }
\* packets at and beyond the 255-fragment limit
LargeInputs ==
    [packet : {Ramp(254), Ramp(255), Ramp(256), Ramp(300), Ramp(510), Ramp(511)},
     id : {258}, max_payload : {4, 6, 7}]

FragIdle ==
    /\ fragments = EmptyBuffer /\ now = 0
    /\ op = "init" /\ arg = <<>> /\ result = None /\ before = EmptyBuffer
RtIdle ==
    /\ in_packet = <<>> /\ in_id = 0 /\ in_max_payload = 0
    /\ envelopes = None /\ delivered = <<>> /\ results = <<>>
    /\ n_originals = {} /\ n_net = {} /\ n_emitted = {}
SendIdle ==
    /\ c_packet_id = 0 /\ c_max_payload = 0 /\ c_status = "running"
    /\ c_sends = 0 /\ c_last = None
    /\ c_pending = <<>> /\ c_polled = <<>> /\ c_transmitted = <<>>
    /\ c_packets = <<>> /\ c_frags = <<>>
RecvIdle ==
    /\ r_pc = "select" /\ r_quic = <<>>
Pending == [tag |-> "pending"]
CfgIdle ==
    /\ g_matches = <<>> /\ g_built = Pending /\ v_specs = <<>> /\ v_resolved = Pending
MainIdle ==
    /\ m_argv = <<>> /\ m_pc = "start" /\ m_exit = None
PathIdle ==
    /\ p_resolvers = <<>> /\ p_ready = FALSE /\ p_probed = <<>>
    /\ p_events = <<>>
    /\ p_conn = "handshake" /\ p_calls = <<>> /\ p_ticks = 0 /\ p_pc = "top"
TickIdle ==
    /\ k_pc = "select" /\ k_read = {} /\ k_queued = <<>> /\ k_handled = 0
    /\ k_polls = <<>> /\ k_ticks = 0
CloseIdle ==
    /\ e_pc = "top" /\ e_closing = FALSE /\ e_udp = 0 /\ e_cmds = 0
    /\ e_arrived = 0
    /\ e_after = [commands |-> 0, datagrams |-> 0]
    /\ e_close_calls = 0 /\ e_ret = None
\* connection ids (Connection::index) and stream ids of the server side
WrapConnIds == {1, 2}
WrapStreamIds == {0, 4}
WrapIdle ==
    /\ w_connections = <<>> /\ w_endpoint = {} /\ w_established = {} /\ w_closed = {}
    /\ w_created = [c \in WrapConnIds |-> {}]
\* QUIC stream ids the client can open: client-initiated bidirectional
StreamIds == {0, 4}
StrIdle ==
    /\ t_accepted = 0 /\ t_cmds = <<>> /\ t_streams = {}
    /\ t_conn = [s \in StreamIds |-> 0]
    /\ t_reader = [s \in StreamIds |-> "none"]
    /\ t_rd = [s \in StreamIds |-> <<>>]
    /\ t_passed = [s \in StreamIds |-> <<>>]
    /\ t_returned = [s \in StreamIds |-> <<>>]
    /\ t_fin = [s \in StreamIds |-> FALSE]
    /\ t_wch = [s \in StreamIds |-> <<>>]
    /\ t_writer = [s \in StreamIds |-> "none"]
    /\ t_written = [s \in StreamIds |-> <<>>]
    /\ t_inwrite = [s \in StreamIds |-> <<>>]
    /\ t_term = [s \in StreamIds |-> 0]
    /\ t_late = [s \in StreamIds |-> 0]
    /\ t_retries = [s \in StreamIds |-> 0]
    /\ t_queued = [s \in StreamIds |-> 0]
    /\ t_handed = [s \in StreamIds |-> <<>>]
    /\ t_drained = [s \in StreamIds |-> 0]
SrvIdle ==
    /\ s_pc = "select" /\ s_burst = 0 /\ s_log = <<>> /\ s_slots = <<>> /\ s_sent = <<>>
    /\ s_shutdown = FALSE /\ s_exit = None /\ s_hs = "none"

-----------------------------------------------------------------------------
(* FragmentSpec: fragment_packet applied to an input *)

FragmentInit ==
    /\ \E i \in SmallInputs \cup TestInputs \cup LargeInputs :
          /\ in_packet = i.packet /\ in_id = i.id /\ in_max_payload = i.max_payload
    /\ envelopes = None /\ delivered = <<>> /\ results = <<>>
    /\ n_originals = {} /\ n_net = {} /\ n_emitted = {}
    /\ FragIdle
    /\ SendIdle
    /\ RecvIdle
    /\ SrvIdle
    /\ StrIdle
    /\ CfgIdle
    /\ MainIdle
    /\ PathIdle
    /\ TickIdle
    /\ CloseIdle
    /\ WrapIdle

\* let fragments = fragment_packet(&packet, packet_id, max_payload)
Fragment ==
    /\ envelopes = None
    /\ envelopes' = Some(fragment_packet(in_packet, in_id, in_max_payload))
    /\ UNCHANGED <<in_packet, in_id, in_max_payload, delivered, results,
                   n_originals, n_net, n_emitted, fragVars, sendVars, recvVars, srvVars, strVars, cfgVars, mainVars, pathVars, tickVars, closeVars, wrapVars>>

FragmentNext == Fragment
FragmentSpec == FragmentInit /\ [][FragmentNext]_vars

-----------------------------------------------------------------------------
(* RoundTripSpec: the envelopes of one packet fed to an empty FragmentBuffer *)
(* in any order, each exactly once (tests reassemble_in_order,             *)
(* reassemble_out_of_order)                                                *)

RoundTripInit ==
    /\ \E i \in SmallInputs \cup TestInputs :
          /\ in_packet = i.packet /\ in_id = i.id /\ in_max_payload = i.max_payload
    /\ envelopes = None /\ delivered = <<>> /\ results = <<>>
    /\ n_originals = {} /\ n_net = {} /\ n_emitted = {}
    /\ FragIdle
    /\ SendIdle
    /\ RecvIdle
    /\ SrvIdle
    /\ StrIdle
    /\ CfgIdle
    /\ MainIdle
    /\ PathIdle
    /\ TickIdle
    /\ CloseIdle
    /\ WrapIdle

Range(s) == {s[k] : k \in DOMAIN s}
Undelivered == (DOMAIN envelopes.val) \ Range(delivered)

\* let result = buffer.receive_fragment(frag)
Deliver(i) ==
    /\ envelopes # None
    /\ i \in Undelivered
    /\ LET r == receive_fragment(fragments, envelopes.val[i], now) IN
         /\ fragments' = r.buf
         /\ results' = Append(results, r.ret)
    /\ delivered' = Append(delivered, i)
    /\ UNCHANGED <<in_packet, in_id, in_max_payload, envelopes, n_originals, n_net, n_emitted,
                   now, op, arg, result, before, sendVars, recvVars, srvVars, strVars, cfgVars, mainVars, pathVars, tickVars, closeVars, wrapVars>>

RoundTripNext ==
    \/ Fragment
    \/ \E i \in 1..MAX_FRAGMENTS : Deliver(i)
RoundTripSpec == RoundTripInit /\ [][RoundTripNext]_vars

-----------------------------------------------------------------------------
(* Claims about fragment_packet and the round trip *)

\* n = max(1, ceil(|packet| / (max_payload - 5)))
NumFragments(len, max_payload) == Max(1, CeilDiv(len, max_payload - 5))

\* C1: Fragment round-trip in any arrival order.  For max_payload > 5 and
\* 0 < |packet| <= 255*(max_payload-5), feeding the envelopes of
\* fragment_packet(packet, id, max_payload) to an empty FragmentBuffer in any
\* order returns None for every envelope but the last one delivered and
\* Some(packet) for the last one, after which the buffer holds no entry for id.
C1_RoundTripAnyOrder ==
    ( /\ envelopes # None
      /\ in_max_payload > 5
      /\ Len(in_packet) > 0
      /\ Len(in_packet) <= 255 * (in_max_payload - 5) )
    => LET n == Len(envelopes.val) IN
       /\ n >= 1
       /\ Len(results) = Len(delivered)
       /\ \A k \in 1..Len(results) :
             IF k < n THEN results[k] = None ELSE results[k] = Some(in_packet)
       /\ (Len(delivered) = n => in_id \notin DOMAIN fragments)
       /\ (Len(delivered) \in 1..(n - 1) => in_id \in DOMAIN fragments)

\* a packet of three or more envelopes completed with envelope 0 delivered last
C1_Witness ==
    /\ envelopes # None
    /\ Len(envelopes.val) >= 3
    /\ Len(delivered) = Len(envelopes.val)
    /\ delivered[Len(delivered)] = 1
    /\ delivered[1] = Len(envelopes.val)
    /\ results[Len(results)] = Some(in_packet)

\* C2: Fragment layout.  For max_payload > 5 and n <= 255, fragment_packet
\* returns exactly n envelopes; envelope i (0-based) is 0x53, the packet id as
\* two big-endian bytes, frag_num = i, total = n, then the i-th contiguous
\* chunk of max_payload-5 bytes (only the last may be shorter); no envelope
\* is longer than max_payload.
C2_FragmentLayout ==
    ( /\ envelopes # None
      /\ in_max_payload > 5
      /\ NumFragments(Len(in_packet), in_max_payload) <= 255 )
    => LET env == envelopes.val
           n == NumFragments(Len(in_packet), in_max_payload)
           size == in_max_payload - 5
       IN
       /\ Len(env) = n
       /\ \A i \in 1..n :
             /\ Len(env[i]) >= 5
             /\ Len(env[i]) <= in_max_payload
             /\ env[i][1] = 83
             /\ env[i][2] * 256 + env[i][3] = in_id
             /\ env[i][2] < 256 /\ env[i][3] < 256
             /\ env[i][4] = i - 1
             /\ env[i][5] = n
             /\ (i < n => Len(env[i]) = in_max_payload)
             /\ (i = n => Len(env[i]) - 5 = Len(in_packet) - (n - 1) * size)
             /\ \A k \in 1..(Len(env[i]) - 5) : env[i][5 + k] = in_packet[(i - 1) * size + k]
       /\ ( (in_packet = Ramp(100) /\ in_max_payload = 20) =>
               [i \in 1..Len(env) |-> Len(env[i]) - 5] = <<15, 15, 15, 15, 15, 15, 10>> )
       /\ ( (in_packet = Hello /\ in_max_payload = 100) =>
               env = << <<83, in_id \div 256, in_id % 256, 0, 1>> \o Hello >> )

\* the 100-byte packet of the unit test split into 7 envelopes
C2_Witness ==
    /\ envelopes # None
    /\ in_packet = Ramp(100) /\ in_max_payload = 20
    /\ Len(envelopes.val) = 7

-----------------------------------------------------------------------------
(* Spec: a FragmentBuffer under any sequence of receive_fragment and        *)
(* cleanup_stale calls, with time passing in between                        *)

BufPayloads == {<<7>>, <<8, 9>>}
\* envelopes of packet id 1 with every total and frag_num up to 3, well-formed
\* and ill-formed (total 0, frag_num >= total), and the two envelopes of a
\* two-fragment packet with id 515
BufEnvelopes ==
    {Envelope(1, f, t, p) : f \in 0..2, t \in 0..3, p \in BufPayloads}
    \cup {Envelope(515, f, 2, <<7>>) : f \in 0..1}
\* too short, and a wrong magic byte
Malformed == { <<>>, <<FRAGMENT_MAGIC, 0, 1, 0>>, <<84, 0, 1, 0, 2, 7>> }
BufInputs == BufEnvelopes \cup Malformed

Init ==
    /\ FragIdle
    /\ RtIdle
    /\ SendIdle
    /\ RecvIdle
    /\ SrvIdle
    /\ StrIdle
    /\ CfgIdle
    /\ MainIdle
    /\ PathIdle
    /\ TickIdle
    /\ CloseIdle
    /\ WrapIdle

\* buffer.receive_fragment(data)
ReceiveFragment(data) ==
    /\ LET r == receive_fragment(fragments, data, now) IN
         /\ fragments' = r.buf
         /\ result' = r.ret
    /\ op' = "receive_fragment"
    /\ arg' = data
    /\ before' = fragments
    /\ UNCHANGED <<now, rtVars, sendVars, recvVars, srvVars, strVars, cfgVars, mainVars, pathVars, tickVars, closeVars, wrapVars>>

\* buffer.cleanup_stale()
CleanupStale ==
    /\ fragments' = cleanup_stale(fragments, now)
    /\ op' = "cleanup_stale"
    /\ arg' = <<>>
    /\ result' = None
    /\ before' = fragments
    /\ UNCHANGED <<now, rtVars, sendVars, recvVars, srvVars, strVars, cfgVars, mainVars, pathVars, tickVars, closeVars, wrapVars>>

\* one second passes
Tick ==
    /\ now < MaxTime
    /\ now' = now + 1
    /\ UNCHANGED <<fragments, op, arg, result, before, rtVars, sendVars, recvVars, srvVars, strVars, cfgVars, mainVars, pathVars, tickVars, closeVars, wrapVars>>

Next ==
    \/ \E data \in BufInputs : ReceiveFragment(data)
    \/ CleanupStale
    \/ Tick
Spec == Init /\ [][Next]_vars

-----------------------------------------------------------------------------
(* ClientSendSpec: the send path of run_client.  Each step is one iteration *)
(* of the loop over the packets conn.poll_send() returned: the packet is    *)
(* fragmented with the current packet_id, packet_id is advanced, and each   *)
(* fragment is sent as one DNS query; a failing udp.send_to ends run_client *)
(* with an error.  The DNS id and the debug counters are not tracked.       *)
(* ClientSendSpec follows the first MaxSends packets, among them packets of *)
(* more than 255 fragments; PacketIdSpec follows small packets for as long  *)
(* as the client runs, through the wrap of the 16-bit packet id.            *)

\* the QUIC packets poll_send may return: one envelope, a few envelopes, and
\* at and beyond the 255-fragment limit (at max_payload 6)
SmallPackets == { <<>>, <<1>>, <<1, 2>>, <<FRAGMENT_MAGIC, 2, 3>> }
SendPackets == SmallPackets \cup { Ramp(255), Ramp(256), Ramp(300) }
\* what max_payload_len_for_domain may return for the configured domain
SendMaxPayloads == {5, 6, 7}

\* (mutant) the packet id advanced without wrapping
NextPacketIdNoWrap(id) == id + 1
\* packet_id = packet_id.wrapping_add(1)
NextPacketId(id) == (id + 1) % U16

ClientSendInit ==
    /\ c_packet_id = 0
    /\ c_max_payload \in SendMaxPayloads
    /\ c_status = "running"
    /\ c_sends = 0
    /\ c_last = None
    /\ c_pending = <<>> /\ c_polled = <<>> /\ c_transmitted = <<>>
    /\ c_packets = <<>> /\ c_frags = <<>>
    /\ FragIdle
    /\ RtIdle
    /\ RecvIdle
    /\ SrvIdle
    /\ StrIdle
    /\ CfgIdle
    /\ MainIdle
    /\ PathIdle
    /\ TickIdle
    /\ CloseIdle
    /\ WrapIdle

\* lines 335-352, the start of one iteration of `for (packet_data, dest) in
\* packets`.  When max_payload_len_for_domain fails the iteration returns
\* before the packet is fragmented and before packet_id advances; otherwise
\* the packet is fragmented and packet_id advances, and the fragments are
\* then sent one by one (SendFragment).
SendPacket(packet_data) ==
    /\ c_status = "running"
    /\ c_frags = <<>>
    /\ \/ /\ c_status' = "failed"
          /\ UNCHANGED <<c_packet_id, c_last, c_frags>>
       \/ /\ c_frags' = fragment_packet(packet_data, c_packet_id, c_max_payload)
          /\ c_last' = Some([packet |-> packet_data, id |-> c_packet_id, sent |-> <<>>])
          /\ c_packet_id' = NextPacketId(c_packet_id)
          /\ UNCHANGED c_status
    /\ c_sends' = Min(c_sends + 1, MaxSends)
    /\ UNCHANGED <<c_max_payload, c_pending, c_polled, c_transmitted, c_packets, fragVars, rtVars, recvVars, srvVars, strVars, cfgVars, mainVars, pathVars, tickVars, closeVars, wrapVars>>

\* lines 355-377, one turn of `for fragment in fragments`: the query of the
\* next fragment is built, encoded and handed to udp.send_to, which is
\* awaited; when build_qname, encode_query or send_to fails run_client
\* returns the error.  The other tasks that run while send_to is awaited
\* write none of these variables.
SendFragment(ok) ==
    /\ c_status = "running"
    /\ c_frags # <<>>
    /\ IF ok
       THEN /\ c_last' = Some([c_last.val EXCEPT !.sent = Append(@, Head(c_frags))])
            /\ c_frags' = Tail(c_frags)
            /\ UNCHANGED c_status
       ELSE /\ c_status' = "failed"
            /\ c_frags' = <<>>
            /\ UNCHANGED c_last
    /\ UNCHANGED <<c_packet_id, c_max_payload, c_sends, c_pending, c_polled, c_transmitted, c_packets, fragVars, rtVars, recvVars, srvVars, strVars, cfgVars, mainVars, pathVars, tickVars, closeVars, wrapVars>>

ClientSendNext ==
    \/ \E packet_data \in SendPackets : c_sends < MaxSends /\ SendPacket(packet_data)
    \/ \E ok \in BOOLEAN : SendFragment(ok)
ClientSendSpec == ClientSendInit /\ [][ClientSendNext]_vars

PacketIdNext ==
    \/ \E packet_data \in SmallPackets : SendPacket(packet_data)
    \/ \E ok \in BOOLEAN : SendFragment(ok)
PacketIdSpec == ClientSendInit /\ [][PacketIdNext]_vars

-----------------------------------------------------------------------------
(* ClientRecvSpec: the receive path of run_client.  One loop iteration is   *)
(* the select (a datagram arrives, or the sleep elapses) followed by the    *)
(* rest of the loop body, which does not touch recv_fragment_buffer; time   *)
(* passes in between.                                                       *)

\* carrier payloads of DNS responses: the two fragments of packet 1, a
\* fragment of packet 515 whose other fragment never arrives, a one-fragment
\* packet, and a raw QUIC datagram
RecvPayloads ==
    { Envelope(1, 0, 2, <<7>>), Envelope(1, 1, 2, <<8, 9>>),
      Envelope(515, 0, 2, <<7>>), Envelope(2, 0, 1, <<7>>), <<192, 0, 0, 0, 1, 7>> }
\* UDP datagrams: DNS responses carrying a payload, and bytes that are no DNS response
Datagrams ==
    {[kind |-> "response", payload |-> p] : p \in RecvPayloads}
    \cup {[kind |-> "other", payload |-> <<192, 1>>]}

\* decode_response(&recv_buf[..size]) -> Option<Vec<u8>>
decode_response(d) == IF d.kind = "response" THEN Some(d.payload) ELSE None

\* one received datagram: the buffer afterwards and the conn.recv calls so far
HandleDatagram(st, d, t) ==
    LET decoded == decode_response(d) IN
    IF decoded # None
    THEN IF is_fragmented(decoded.val)
         THEN LET r == receive_fragment(st.buf, decoded.val, t) IN
              [buf |-> r.buf,
               quic |-> IF r.ret # None THEN Append(st.quic, r.ret.val) ELSE st.quic]
         ELSE [buf |-> st.buf, quic |-> Append(st.quic, decoded.val)]
    ELSE [buf |-> st.buf, quic |-> Append(st.quic, d.payload)]

\* the datagram that woke the select, then the burst read with try_recv_from
RECURSIVE HandleDatagrams(_, _, _)
HandleDatagrams(st, ds, t) ==
    IF ds = <<>> THEN st
    ELSE HandleDatagrams(HandleDatagram(st, Head(ds), t), Tail(ds), t)

ClientRecvInit ==
    /\ fragments = EmptyBuffer /\ now = 0
    /\ op = "init" /\ arg = <<>> /\ result = None /\ before = EmptyBuffer
    /\ r_pc = "select" /\ r_quic = <<>>
    /\ RtIdle
    /\ SendIdle
    /\ SrvIdle
    /\ StrIdle
    /\ CfgIdle
    /\ MainIdle
    /\ PathIdle
    /\ TickIdle
    /\ CloseIdle
    /\ WrapIdle

\* recv = udp.recv_from(&mut recv_buf) => Ok((size, from)), and the burst
RecvDatagrams(ds) ==
    /\ r_pc = "select"
    /\ LET h == HandleDatagrams([buf |-> fragments, quic |-> <<>>], ds, now) IN
         /\ fragments' = h.buf
         /\ r_quic' = h.quic
    /\ r_pc' = "post"
    /\ UNCHANGED <<now, op, arg, result, before, rtVars, sendVars, srvVars, strVars, cfgVars, mainVars, pathVars, tickVars, closeVars, wrapVars>>

\* _ = sleep(timeout) => conn.on_timeout()
WakeTimeout ==
    /\ r_pc = "select"
    /\ r_pc' = "post"
    /\ r_quic' = <<>>
    /\ UNCHANGED <<fragVars, rtVars, sendVars, srvVars, strVars, cfgVars, mainVars, pathVars, tickVars, closeVars, wrapVars>>

\* the rest of the loop body: stream reads, queued commands, poll_send,
\* path events; then the next iteration begins
FinishIteration ==
    /\ r_pc = "post"
    /\ r_pc' = "select"
    /\ r_quic' = <<>>
    /\ UNCHANGED <<fragVars, rtVars, sendVars, srvVars, strVars, cfgVars, mainVars, pathVars, tickVars, closeVars, wrapVars>>

\* one second passes
RecvTick ==
    /\ now < MaxTime
    /\ now' = now + 1
    /\ UNCHANGED <<fragments, op, arg, result, before, rtVars, sendVars, recvVars, srvVars, strVars, cfgVars, mainVars, pathVars, tickVars, closeVars, wrapVars>>

ClientRecvNext ==
    \/ \E n \in 1..MaxBurst : \E ds \in [1..n -> Datagrams] : RecvDatagrams(ds)
    \/ WakeTimeout
    \/ FinishIteration
    \/ RecvTick
ClientRecvSpec == ClientRecvInit /\ [][ClientRecvNext]_vars
\* the loop keeps running (its sleep is at most 10 s) and time keeps passing;
\* no datagram is ever guaranteed to arrive
ClientRecvFairSpec ==
    /\ ClientRecvSpec
    /\ WF_vars(WakeTimeout)
    /\ WF_vars(FinishIteration)
    /\ WF_vars(RecvTick)

-----------------------------------------------------------------------------
(* ServerSpec: the UDP arm of run_server's loop.  The server reads a burst  *)
(* of datagrams, turns each into at most one slot (decode_slot), and then   *)
(* answers the slots in order.  What picoquic does with a payload, and      *)
(* whether it has a packet ready for a slot, are inputs.                    *)

\* socket addresses
V4(ip, port) == [fam |-> "V4", ip |-> ip, port |-> port, flowinfo |-> 0, scope_id |-> 0]
V6(ip, port, flowinfo, scope_id) ==
    [fam |-> "V6", ip |-> ip, port |-> port, flowinfo |-> flowinfo, scope_id |-> scope_id]
\* (mutant) the IPv4-compatible form ::a.b.c.d
to_ipv6_compatible(ip) == <<0, 0, 0, 0, 0, 0, 0, 0, 0, 0, 0, 0>> \o ip
\* Ipv4Addr::to_ipv6_mapped: ::ffff:a.b.c.d
to_ipv6_mapped(ip) == <<0, 0, 0, 0, 0, 0, 0, 0, 0, 0, 255, 255>> \o ip
\* normalize_dual_stack_addr of the client (dns/resolver.rs)
normalize_dual_stack_addr(addr) ==
    IF addr.fam = "V4"
    THEN V6(to_ipv6_mapped(addr.ip), addr.port, 0, 0)
    ELSE addr
\* normalize_dual_stack_addr of the server (server.rs)
server_normalize_dual_stack_addr(addr) ==
    IF addr.fam = "V4"
    THEN V6(to_ipv6_mapped(addr.ip), addr.port, 0, 0)
    ELSE addr

\* std::ptr::null_mut()
NULL == 0

PeerA == V4(<<192, 0, 2, 1>>, 4000)
PeerB == V6(<<32, 1, 13, 184, 0, 0, 0, 0, 0, 0, 0, 0, 0, 0, 0, 1>>, 4001, 0, 0)

\* the datagrams the server reads, given by what the decoder makes of them
ServerDatagrams ==
    { [peer |-> PeerA, kind |-> "Ok", id |-> 7, rd |-> TRUE, cd |-> FALSE,
       question |-> Some("x.example.com"), payload |-> <<1>>, rcode |-> None],
      [peer |-> PeerB, kind |-> "Ok", id |-> 7, rd |-> FALSE, cd |-> TRUE,
       question |-> Some("example.com"), payload |-> <<>>, rcode |-> None],
      [peer |-> PeerA, kind |-> "Drop", id |-> 8, rd |-> FALSE, cd |-> FALSE,
       question |-> None, payload |-> <<>>, rcode |-> None],
      [peer |-> PeerB, kind |-> "Reply", id |-> 9, rd |-> TRUE, cd |-> FALSE,
       question |-> Some("x.other.org"), payload |-> <<>>, rcode |-> Some("Refused")],
      [peer |-> PeerA, kind |-> "Reply", id |-> 9, rd |-> FALSE, cd |-> FALSE,
       question |-> None, payload |-> <<>>, rcode |-> Some("FormatError")] }

\* decode_query_with_domains(packet, domains)
decode_query_with_domains(d) ==
    CASE d.kind = "Ok" ->
            [tag |-> "Ok", id |-> d.id, rd |-> d.rd, cd |-> d.cd,
             question |-> d.question.val, payload |-> d.payload]
      [] d.kind = "Drop" -> [tag |-> "Drop"]
      [] d.kind = "Reply" ->
            [tag |-> "Reply", id |-> d.id, rd |-> d.rd, cd |-> d.cd,
             question |-> d.question, rcode |-> d.rcode.val]

\* picoquic_incoming_packet_ex: the return code and the out-parameters
\* first_cnx and first_path
IncomingOutcomes ==
    { [ret |-> -1, first_cnx |-> NULL, first_path |-> -1],
      [ret |-> 0, first_cnx |-> NULL, first_path |-> -1],
      [ret |-> 0, first_cnx |-> 1, first_path |-> 0],
      [ret |-> 0, first_cnx |-> 2, first_path |-> 1] }
NotCalled == [ret |-> 0, first_cnx |-> NULL, first_path |-> -1]
\* picoquic finds the connection of a packet from the packet itself: here the
\* packets of PeerA belong to connection 1 and those of PeerB to connection 2
IncomingFor(d) ==
    {o \in IncomingOutcomes : o.first_cnx \in {NULL, IF d.peer = PeerA THEN 1 ELSE 2}}

\* picoquic_prepare_packet_ex: the return code, send_length and the bytes
PrepareOutcomes ==
    { [ret |-> -1, send_length |-> 0, bytes |-> <<>>],
      [ret |-> 0, send_length |-> 0, bytes |-> <<>>],
      [ret |-> 0, send_length |-> 2, bytes |-> <<64, 9>>] }

\* encode_response and udp.send_to
SendOutcomes == {"ok", "encode_err", "send_err"}

\* decode_slot: Err, Ok(None) or Ok(Some(slot)); q is the position of the
\* datagram in s_log
decode_slot(d, q, incoming) ==
    LET r == decode_query_with_domains(d) IN
    CASE r.tag = "Ok" ->
            IF incoming.ret < 0 THEN [tag |-> "Err"]
            ELSE IF incoming.first_cnx = NULL THEN [tag |-> "Ok", val |-> None]
            ELSE [tag |-> "Ok",
                  val |-> Some([q |-> q, peer |-> server_normalize_dual_stack_addr(d.peer),
                                id |-> r.id, rd |-> r.rd, cd |-> r.cd,
                                question |-> r.question, rcode |-> None,
                                cnx |-> incoming.first_cnx,
                                path_id |-> incoming.first_path])]
      [] r.tag = "Drop" -> [tag |-> "Ok", val |-> None]
      [] r.tag = "Reply" ->
            IF r.question = None THEN [tag |-> "Ok", val |-> None]
            ELSE [tag |-> "Ok",
                  val |-> Some([q |-> q, peer |-> server_normalize_dual_stack_addr(d.peer),
                                id |-> r.id, rd |-> r.rd, cd |-> r.cd,
                                question |-> r.question.val, rcode |-> Some(r.rcode),
                                cnx |-> NULL, path_id |-> -1])]

\* streams::handle_shutdown(quic, state) -> bool: what a call may return.  The
\* loop only branches on the result, and either result is possible at every
\* call
handle_shutdown == BOOLEAN

\* the top of `loop` (lines 202-210) reached with the given value of the flag,
\* where handle_shutdown, if called, returns stop: where the loop stands next
LoopTop_Blind(shutdown, stop) == "select"
LoopTop(shutdown, stop) == IF shutdown /\ stop THEN "exited" ELSE "select"
\* lines 205-207: handle_shutdown is called when the flag is set; what its
\* last call returned
ShutdownCall(hs, shutdown, stop) ==
    IF shutdown THEN (IF stop THEN "stopped" ELSE "declined") ELSE hs
\* Ok(0) after the loop; main exits with the code
ExitAt(pc) == IF pc = "exited" THEN Some([code |-> 0, at |-> "shutdown", kind |-> "none"]) ELSE None
\* return Err(..) from the call `at`; main exits with 1
Fail(at, kind) == Some([code |-> 1, at |-> at, kind |-> kind])

ServerInit ==
    /\ s_pc = "select" /\ s_burst = 0 /\ s_log = <<>> /\ s_slots = <<>> /\ s_sent = <<>>
    /\ s_shutdown = FALSE /\ s_exit = None /\ s_hs = "none"
    /\ FragIdle
    /\ RtIdle
    /\ SendIdle
    /\ RecvIdle
    /\ StrIdle
    /\ CfgIdle
    /\ MainIdle
    /\ PathIdle
    /\ TickIdle
    /\ CloseIdle
    /\ WrapIdle

\* s_log keeps, for every datagram received, the datagram, what
\* picoquic_incoming_packet_ex did with it, whether the awaited recv_from
\* (first) or a try_recv_from of the burst returned it, and what
\* handle_shutdown had last returned when it was received (hs).
\* one datagram of the burst: udp.recv_from woke the select (s_pc = "select")
\* or try_recv_from returned another datagram (s_pc = "burst")
ServerRecv(d, incoming) ==
    /\ s_pc \in {"select", "burst"}
    /\ Len(s_log) < MaxQueries
    /\ s_burst < MaxBurst
    /\ s_burst' = s_burst + 1
    /\ d.kind # "Ok" => incoming = NotCalled
    /\ s_log' = Append(s_log, [dgram |-> d, incoming |-> incoming,
                                first |-> (s_pc = "select"), hs |-> s_hs])
    /\ LET r == decode_slot(d, Len(s_log) + 1, incoming) IN
         IF r.tag = "Err"
         THEN s_pc' = "failed" /\ s_slots' = <<>> /\ s_exit' = Fail("decode_slot", "none")
         ELSE /\ s_pc' = "burst"
              /\ s_slots' = IF r.val # None THEN Append(s_slots, r.val.val) ELSE s_slots
              /\ UNCHANGED s_exit
    /\ UNCHANGED <<s_sent, s_shutdown, s_hs, fragVars, rtVars, sendVars, recvVars, strVars, cfgVars, mainVars, pathVars, tickVars, closeVars, wrapVars>>

\* try_recv_from returned WouldBlock, or the burst is full; without slots the
\* loop continues at its top
ServerBurstEnd ==
    /\ s_pc = "burst"
    /\ \E stop \in handle_shutdown :
          IF s_slots = <<>>
          THEN /\ s_pc' = LoopTop(s_shutdown, stop)
               /\ s_hs' = ShutdownCall(s_hs, s_shutdown, stop)
          ELSE s_pc' = "respond" /\ UNCHANGED s_hs
    /\ s_exit' = ExitAt(s_pc')
    /\ s_burst' = 0
    /\ UNCHANGED <<s_log, s_slots, s_sent, s_shutdown, fragVars, rtVars, sendVars, recvVars, strVars, cfgVars, mainVars, pathVars, tickVars, closeVars, wrapVars>>

\* the ResponseParams given to encode_response (lines 299-306)
ResponseParams_FlagsSwapped(slot, payload, rcode) ==
    [id |-> slot.id, rd |-> slot.cd, cd |-> slot.rd, question |-> slot.question,
     payload |-> payload, rcode |-> rcode]
ResponseParams(slot, payload, rcode) ==
    [id |-> slot.id, rd |-> slot.rd, cd |-> slot.cd, question |-> slot.question,
     payload |-> payload, rcode |-> rcode]

\* `let (payload, rcode) = if send_length > 0 { .. } else if .. { .. } else { .. }`
SlotAnswer_Empty(slot, send_length, bytes) == [payload |-> None, rcode |-> Some("Ok")]
SlotAnswer(slot, send_length, bytes) ==
    IF send_length > 0 THEN [payload |-> Some(bytes), rcode |-> slot.rcode]
    ELSE IF slot.rcode = None THEN [payload |-> None, rcode |-> Some("Ok")]
    ELSE [payload |-> None, rcode |-> slot.rcode]

\* one turn of `for slot in slots.iter_mut()`.  An entry of s_sent is the
\* ResponseParams, the destination, and the picoquic_prepare_packet_ex call
\* made for the slot (prepare), if any
ServerRespond(prep, io) ==
    /\ s_pc = "respond"
    /\ LET slot == Head(s_slots)
           asked == slot.rcode = None /\ slot.cnx # NULL
           send_length == IF asked THEN prep.send_length ELSE 0
           answer == SlotAnswer(slot, send_length, prep.bytes)
           response == ResponseParams(slot, answer.payload, answer.rcode) @@
                       [q |-> slot.q, peer |-> server_normalize_dual_stack_addr(slot.peer),
                        prepare |-> IF asked
                                    THEN Some([cnx |-> slot.cnx, path_id |-> slot.path_id,
                                               send_length |-> prep.send_length,
                                               bytes |-> prep.bytes])
                                    ELSE None]
       IN
         /\ ~asked => prep.ret = 0 /\ prep.send_length = 0
         /\ IF (asked /\ prep.ret < 0) \/ io # "ok"
            THEN /\ s_pc' = "failed"
                 /\ s_exit' = IF asked /\ prep.ret < 0 THEN Fail("prepare", "none")
                               ELSE Fail(io, "none")
                 /\ s_slots' = <<>>
                 /\ s_sent' = s_sent
                 /\ UNCHANGED s_hs
            ELSE /\ s_sent' = Append(s_sent, response)
                 /\ s_slots' = Tail(s_slots)
                 /\ \E stop \in handle_shutdown :
                       IF Tail(s_slots) = <<>>
                       THEN /\ s_pc' = LoopTop(s_shutdown, stop)
                            /\ s_hs' = ShutdownCall(s_hs, s_shutdown, stop)
                       ELSE s_pc' = "respond" /\ UNCHANGED s_hs
                 /\ s_exit' = ExitAt(s_pc')
    /\ UNCHANGED <<s_burst, s_log, s_shutdown, fragVars, rtVars, sendVars, recvVars, strVars, cfgVars, mainVars, pathVars, tickVars, closeVars, wrapVars>>

\* a UDP receive returns an error.  The awaited recv_from (s_pc = "select"):
\* `recv.map_err(map_io)?` returns Err whatever the kind.  try_recv_from in the
\* burst, which is called only while the for loop has a turn left
\* (s_burst < MaxBurst): Interrupted continues with the next turn, WouldBlock
\* breaks (ServerBurstEnd), any other kind returns Err
RecvErrorKinds == {"WouldBlock", "Interrupted", "Other"}
ServerRecvErr(kind) ==
    /\ s_pc \in {"select", "burst"}
    /\ IF s_pc = "select"
       THEN /\ s_pc' = "failed" /\ s_exit' = Fail("recv_from", kind)
            /\ s_slots' = <<>> /\ UNCHANGED s_burst
       ELSE /\ kind # "WouldBlock"
            /\ s_burst < MaxBurst
            /\ IF kind = "Interrupted"
               THEN /\ s_burst' = s_burst + 1
                    /\ UNCHANGED <<s_pc, s_slots, s_exit>>
               ELSE /\ s_pc' = "failed" /\ s_exit' = Fail("try_recv_from", kind)
                    /\ s_slots' = <<>> /\ UNCHANGED s_burst
    /\ UNCHANGED <<s_log, s_sent, s_shutdown, s_hs, fragVars, rtVars, sendVars, recvVars, strVars, cfgVars, mainVars, pathVars, tickVars, closeVars, wrapVars>>

\* the select is woken by a command or by the 10 ms sleep: no slot, the loop
\* continues at its top
ServerIdleWake(arm) ==
    /\ s_pc = "select"
    /\ \E stop \in handle_shutdown :
          /\ s_pc' = LoopTop(s_shutdown, stop)
          /\ s_hs' = ShutdownCall(s_hs, s_shutdown, stop)
    /\ s_exit' = ExitAt(s_pc')
    /\ UNCHANGED <<s_burst, s_log, s_slots, s_sent, s_shutdown,
                   fragVars, rtVars, sendVars, recvVars, strVars, cfgVars, mainVars, pathVars, tickVars, closeVars, wrapVars>>

\* handle_sigterm: SIGTERM arrives while the server runs
Sigterm ==
    /\ s_pc \notin {"exited", "failed"}
    /\ ~s_shutdown
    /\ s_shutdown' = TRUE
    /\ UNCHANGED <<s_pc, s_burst, s_log, s_slots, s_sent, s_exit, s_hs,
                   fragVars, rtVars, sendVars, recvVars, strVars, cfgVars, mainVars, pathVars, tickVars, closeVars, wrapVars>>

ServerNext ==
    \/ \E d \in ServerDatagrams : \E incoming \in IncomingFor(d) : ServerRecv(d, incoming)
    \/ \E kind \in RecvErrorKinds : ServerRecvErr(kind)
    \/ ServerBurstEnd
    \/ \E prep \in PrepareOutcomes : \E io \in SendOutcomes : ServerRespond(prep, io)
    \/ \E arm \in {"command", "sleep"} : ServerIdleWake(arm)
    \/ Sigterm
ServerSpec == ServerInit /\ [][ServerNext]_vars

\* every awaited call of the loop returns: the sleep arm ends the select after
\* 10 ms, try_recv_from never blocks, and each response is sent
ServerFairSpec ==
    /\ ServerSpec
    /\ WF_vars(\E arm \in {"command", "sleep"} : ServerIdleWake(arm))
    /\ WF_vars(ServerBurstEnd)
    /\ WF_vars(\E prep \in PrepareOutcomes : \E io \in SendOutcomes : ServerRespond(prep, io))

-----------------------------------------------------------------------------
(* StreamSpec: stream forwarding on the client.  Per accepted TCP           *)
(* connection there is a reader task (TCP -> command channel) and a writer  *)
(* task (writer channel -> TCP); the main loop handles the commands and     *)
(* moves the bytes conn.stream_read returns into the writer channels.  The  *)
(* three run concurrently, so every interleaving of their steps is a        *)
(* behaviour.                                                               *)

\* u64::saturating_sub
saturating_sub(a, b) == IF a >= b THEN a - b ELSE 0

\* what the local application sends on TCP connection c
TcpIn(c) == IF c = 1 THEN <<1, 2, 3>> ELSE <<4>>
\* what the peer sends on QUIC stream s
QuicIn(s) == IF s = 0 THEN <<11, 12, 13>> ELSE <<14>>
TcpConns == {1, 2}

\* mpsc::UnboundedSender::send
SendPrepend(ch, m) == <<m>> \o ch
Send(ch, m) == Append(ch, m)

Drop(q, n) == SubSeq(q, n + 1, Len(q))
Take(q, n) == SubSeq(q, 1, n)
IsPrefix(a, b) == Len(a) <= Len(b) /\ a = Take(b, Len(a))

\* stream_bidi_new: the next client-initiated bidirectional stream id
NextStreamId == 4 * Cardinality({s \in StreamIds : t_conn[s] # 0})

StreamInit ==
    /\ StrIdle
    /\ FragIdle
    /\ RtIdle
    /\ SendIdle
    /\ RecvIdle
    /\ SrvIdle
    /\ CfgIdle
    /\ MainIdle
    /\ PathIdle
    /\ TickIdle
    /\ CloseIdle
    /\ WrapIdle

\* spawn_acceptor: listener.accept() => Ok((stream, _))
Accept ==
    /\ t_accepted < Cardinality(TcpConns)
    /\ t_accepted' = t_accepted + 1
    /\ t_cmds' = Send(t_cmds, [cmd |-> "NewStream", conn |-> t_accepted + 1])
    /\ UNCHANGED <<t_term, t_late, t_retries, t_queued, t_handed, t_drained,
                   t_streams, t_conn, t_reader, t_rd, t_passed, t_returned, t_fin,
                   t_wch, t_writer, t_written, t_inwrite, fragVars, rtVars, sendVars, recvVars, srvVars, cfgVars, mainVars, pathVars, tickVars, closeVars, wrapVars>>

\* the reader task after a read: `break` after Ok(0) and after an error other
\* than Interrupted, the next turn of its loop otherwise
ReaderAfter_NoBreak(read) == "running"
ReaderAfter(read) == IF read \in {"Ok(0)", "Err"} THEN "done" ELSE "running"

\* one more command of the reader task of s after its terminal command, if
\* it has sent one
Late(s) == [t_late EXCEPT ![s] = IF t_term[s] > 0 THEN @ + 1 ELSE @]

\* spawn_tcp_to_quic_reader: tcp_read.read(&mut buf) => Ok(n), n > 0
ReaderData(s, n) ==
    /\ t_reader[s] = "running"
    /\ n <= STREAM_READ_CHUNK_BYTES
    /\ n <= Len(TcpIn(t_conn[s])) - Len(t_rd[s])
    /\ LET data == SubSeq(TcpIn(t_conn[s]), Len(t_rd[s]) + 1, Len(t_rd[s]) + n) IN
         /\ t_rd' = [t_rd EXCEPT ![s] = @ \o data]
         /\ t_cmds' = Send(t_cmds, [cmd |-> "StreamData", stream_id |-> s, data |-> data])
    /\ t_reader' = [t_reader EXCEPT ![s] = ReaderAfter("Ok(n)")]
    /\ t_late' = Late(s)
    /\ UNCHANGED <<t_term, t_retries, t_queued, t_handed, t_drained,
                   t_accepted, t_streams, t_conn, t_passed, t_returned, t_fin,
                   t_wch, t_writer, t_written, t_inwrite, fragVars, rtVars, sendVars, recvVars, srvVars, cfgVars, mainVars, pathVars, tickVars, closeVars, wrapVars>>

\* spawn_tcp_to_quic_reader: Ok(0) => StreamClosed, Err(_) => StreamReadError
ReaderEnd(s, cmd) ==
    /\ t_reader[s] = "running"
    /\ cmd = "StreamClosed" => t_rd[s] = TcpIn(t_conn[s])
    /\ t_reader' = [t_reader EXCEPT ![s] =
                       ReaderAfter(IF cmd = "StreamClosed" THEN "Ok(0)" ELSE "Err")]
    /\ t_cmds' = Send(t_cmds, [cmd |-> cmd, stream_id |-> s])
    /\ t_term' = [t_term EXCEPT ![s] = @ + 1]
    /\ t_late' = Late(s)
    /\ UNCHANGED <<t_retries, t_queued, t_handed, t_drained,
                   t_accepted, t_streams, t_conn, t_rd, t_passed, t_returned, t_fin,
                   t_wch, t_writer, t_written, t_inwrite, fragVars, rtVars, sendVars, recvVars, srvVars, cfgVars, mainVars, pathVars, tickVars, closeVars, wrapVars>>

\* spawn_tcp_to_quic_reader: Err(err) with ErrorKind::Interrupted => continue
ReaderInterrupted(s) ==
    /\ t_reader[s] = "running"
    /\ t_retries[s] < MaxRetries
    /\ t_retries' = [t_retries EXCEPT ![s] = @ + 1]
    /\ t_reader' = [t_reader EXCEPT ![s] = ReaderAfter("Interrupted")]
    /\ UNCHANGED <<t_term, t_late, t_queued, t_handed, t_drained,
                   t_accepted, t_cmds, t_streams, t_conn, t_rd, t_passed, t_returned, t_fin,
                   t_wch, t_writer, t_written, t_inwrite, fragVars, rtVars, sendVars, recvVars, srvVars, cfgVars, mainVars, pathVars, tickVars, closeVars, wrapVars>>

\* handle_command(command) for the oldest command of the channel; `ok` is
\* whether the call into the connection (open_bi, stream_write) succeeds
handle_command(ok) ==
    /\ t_cmds # <<>>
    /\ LET c == Head(t_cmds) IN
         /\ t_cmds' = Tail(t_cmds)
         /\ CASE c.cmd = "NewStream" ->
                   IF ok
                   THEN LET id == NextStreamId IN
                        /\ t_conn' = [t_conn EXCEPT ![id] = c.conn]
                        /\ t_streams' = t_streams \cup {id}
                        /\ t_reader' = [t_reader EXCEPT ![id] = "running"]
                        /\ t_writer' = [t_writer EXCEPT ![id] = "running"]
                        /\ t_queued' = [t_queued EXCEPT ![id] = 0]
                        /\ UNCHANGED t_passed
                   ELSE UNCHANGED <<t_conn, t_streams, t_reader, t_writer, t_passed, t_queued>>
              [] c.cmd = "StreamData" ->
                   /\ t_passed' = [t_passed EXCEPT ![c.stream_id] = @ \o c.data]
                   /\ t_streams' = IF ok THEN t_streams ELSE t_streams \ {c.stream_id}
                   /\ UNCHANGED <<t_conn, t_reader, t_writer, t_queued>>
              [] c.cmd = "StreamClosed" ->
                   /\ t_streams' = t_streams \ {c.stream_id}
                   /\ UNCHANGED <<t_conn, t_reader, t_writer, t_passed, t_queued>>
              [] c.cmd \in {"StreamReadError", "StreamWriteError"} ->
                   /\ ok
                   /\ t_streams' = t_streams \ {c.stream_id}
                   /\ UNCHANGED <<t_conn, t_reader, t_writer, t_passed, t_queued>>
              [] c.cmd = "StreamWriteDrained" ->
                   /\ ok
                   /\ t_queued' = IF c.stream_id \in t_streams
                                  THEN [t_queued EXCEPT ![c.stream_id] =
                                           saturating_sub(@, c.bytes)]
                                  ELSE t_queued
                   /\ UNCHANGED <<t_conn, t_streams, t_reader, t_writer, t_passed>>
         /\ t_drained' = IF c.cmd = "StreamWriteDrained" /\ c.stream_id \in t_streams
                         THEN [t_drained EXCEPT ![c.stream_id] = @ + c.bytes]
                         ELSE t_drained
    /\ UNCHANGED <<t_term, t_late, t_retries, t_handed,
                   t_accepted, t_rd, t_returned, t_fin, t_wch, t_written, t_inwrite>>

\* the command arm of the select and the drain, as far as the streams go
HandleCommand(ok) ==
    /\ handle_command(ok)
    /\ UNCHANGED <<fragVars, rtVars, sendVars, recvVars, srvVars, cfgVars, mainVars, pathVars, tickVars, closeVars, wrapVars>>

\* write_tx.send(..) succeeds for as long as the writer task holds data_rx
ReceiverAlive(s) == t_writer[s] \in {"running", "failed"}

\* run_client, one turn of `for stream_id in conn.readable_streams()`:
\* conn.stream_read(stream_id, &mut read_buf) => Ok((n, fin)) for a readable
\* stream
stream_read(s, n, fin) ==
    /\ t_conn[s] # 0
    /\ ~t_fin[s]
    /\ n <= 4096      \* `let mut read_buf = vec![0u8; 4096]`
    /\ n <= Len(QuicIn(s)) - Len(t_returned[s])
    /\ fin => Len(t_returned[s]) + n = Len(QuicIn(s))
    /\ n > 0 \/ fin
    /\ LET data == SubSeq(QuicIn(s), Len(t_returned[s]) + 1, Len(t_returned[s]) + n) IN
         /\ t_returned' = [t_returned EXCEPT ![s] = @ \o data]
         /\ t_wch' = IF n > 0 /\ s \in t_streams /\ ReceiverAlive(s)
                     THEN [t_wch EXCEPT ![s] = Send(@, data)]
                     ELSE t_wch
         /\ t_handed' = IF n > 0 /\ s \in t_streams /\ ReceiverAlive(s)
                        THEN [t_handed EXCEPT ![s] = @ \o data]
                        ELSE t_handed
    /\ t_fin' = [t_fin EXCEPT ![s] = fin]
    /\ t_streams' = IF fin THEN t_streams \ {s} ELSE t_streams
    /\ UNCHANGED <<t_term, t_late, t_retries, t_queued, t_drained,
                   t_accepted, t_cmds, t_conn, t_reader, t_rd, t_passed, t_writer,
                   t_written, t_inwrite>>

\* the stream reads of the loop, as far as the streams go
StreamRead(s, n, fin) ==
    /\ stream_read(s, n, fin)
    /\ UNCHANGED <<fragVars, rtVars, sendVars, recvVars, srvVars, cfgVars, mainVars, pathVars, tickVars, closeVars, wrapVars>>

\* the chunk the writer task of s is writing: the rest of the chunk it is in
\* write_all with, or the next chunk of the channel when it waits in recv
WriterChunk(s) == IF t_inwrite[s] # <<>> THEN t_inwrite[s] ELSE Head(t_wch[s])
\* the channel once the writer task has taken that chunk
WriterChannel(s) == IF t_inwrite[s] # <<>> THEN t_wch[s] ELSE Tail(t_wch[s])

\* spawn_quic_to_tcp_writer: data_rx.recv() => Some(data) and write_all(&data),
\* one write of the socket at a time: the write takes k bytes of the chunk
\* and the task waits for the socket with the rest (k = 0: the socket is not
\* ready when the chunk is received); with the last byte written the task is
\* back in recv
WriterWrite(s, k) ==
    /\ t_writer[s] = "running"
    /\ t_inwrite[s] # <<>> \/ t_wch[s] # <<>>
    /\ t_inwrite[s] # <<>> => k > 0
    /\ k <= Len(WriterChunk(s))
    /\ t_written' = [t_written EXCEPT ![s] = @ \o Take(WriterChunk(s), k)]
    /\ t_inwrite' = [t_inwrite EXCEPT ![s] = Drop(WriterChunk(s), k)]
    /\ t_wch' = [t_wch EXCEPT ![s] = WriterChannel(s)]
    /\ UNCHANGED <<t_term, t_late, t_retries, t_queued, t_handed, t_drained,
                   t_accepted, t_cmds, t_streams, t_conn, t_reader, t_rd, t_passed,
                   t_returned, t_fin, t_writer, fragVars, rtVars, sendVars, recvVars, srvVars, cfgVars, mainVars, pathVars, tickVars, closeVars, wrapVars>>

\* spawn_quic_to_tcp_writer: write_all(&data) returns an error => break.  The
\* rest of the chunk is dropped; the task goes on to tcp_write.shutdown() and
\* still holds data_rx, so the channel stays open
WriterWriteErr(s) ==
    /\ t_writer[s] = "running"
    /\ t_inwrite[s] # <<>> \/ t_wch[s] # <<>>
    /\ t_inwrite' = [t_inwrite EXCEPT ![s] = <<>>]
    /\ t_wch' = [t_wch EXCEPT ![s] = WriterChannel(s)]
    /\ t_writer' = [t_writer EXCEPT ![s] = "failed"]
    /\ UNCHANGED <<t_term, t_late, t_retries, t_queued, t_handed, t_drained,
                   t_accepted, t_cmds, t_streams, t_conn, t_reader, t_rd, t_passed,
                   t_returned, t_fin, t_written, fragVars, rtVars, sendVars, recvVars, srvVars, cfgVars, mainVars, pathVars, tickVars, closeVars, wrapVars>>

\* spawn_quic_to_tcp_writer: the end of the task.  data_rx.recv() => None once
\* write_tx is dropped and the channel is empty, or the loop was left on a
\* failed write; tcp_write.shutdown() returns and the task ends, which drops
\* data_rx with the chunks still in the channel
WriterShutdown(s) ==
    /\ \/ t_writer[s] = "running" /\ t_inwrite[s] = <<>> /\ t_wch[s] = <<>> /\ s \notin t_streams
       \/ t_writer[s] = "failed"
    /\ t_writer' = [t_writer EXCEPT ![s] = IF @ = "failed" THEN "failed_done" ELSE "done"]
    /\ t_wch' = [t_wch EXCEPT ![s] = <<>>]
    /\ UNCHANGED <<t_term, t_late, t_retries, t_queued, t_handed, t_drained,
                   t_accepted, t_cmds, t_streams, t_conn, t_reader, t_rd, t_passed,
                   t_returned, t_fin, t_written, t_inwrite,
                   fragVars, rtVars, sendVars, recvVars, srvVars, cfgVars, mainVars, pathVars, tickVars, closeVars, wrapVars>>

StreamNext ==
    \/ Accept
    \/ \E s \in StreamIds : \E n \in 1..MaxChunk : ReaderData(s, n)
    \/ \E s \in StreamIds : \E cmd \in {"StreamClosed", "StreamReadError"} : ReaderEnd(s, cmd)
    \/ \E ok \in BOOLEAN : HandleCommand(ok)
    \/ \E s \in StreamIds : \E n \in 0..MaxChunk : \E fin \in BOOLEAN : StreamRead(s, n, fin)
    \/ \E s \in StreamIds : \E k \in 0..MaxChunk : WriterWrite(s, k)
    \/ \E s \in StreamIds : WriterWriteErr(s)
    \/ \E s \in StreamIds : WriterShutdown(s)
StreamSpec == StreamInit /\ [][StreamNext]_vars

\* the reader tasks alone, with the loop handling their commands, and with
\* reads that are interrupted
ReaderNext ==
    \/ Accept
    \/ \E s \in StreamIds : \E n \in 1..MaxChunk : ReaderData(s, n)
    \/ \E s \in StreamIds : ReaderInterrupted(s)
    \/ \E s \in StreamIds : \E cmd \in {"StreamClosed", "StreamReadError"} : ReaderEnd(s, cmd)
    \/ \E ok \in BOOLEAN : HandleCommand(ok)
ReaderSpec == StreamInit /\ [][ReaderNext]_vars

-----------------------------------------------------------------------------
(* BuildResolversSpec: build_resolvers in main.rs.  The command line is a   *)
(* sequence of options, each a flag with its parsed value; option k of the  *)
(* command line has its flag at argv position 2k-1 and its value at 2k.     *)

Ok(v) == [tag |-> "Ok", val |-> v]
Err(msg) == [tag |-> "Err", msg |-> msg]

HostPort(host, port, family) == [host |-> host, port |-> port, family |-> family]

CliHostPorts ==
    { HostPort("1.1.1.1", 53, "V4"), HostPort("2.2.2.2", 53, "V4"),
      HostPort("3.3.3.3", 5353, "V4") }
CliOptions ==
    { [flag |-> f, value |-> v] : f \in {"resolver", "authoritative"}, v \in CliHostPorts }
    \cup { [flag |-> "domain", value |-> "example.com"] }

\* the positions k of the options of matches with the given flag, ascending
RECURSIVE Occurrences(_, _, _)
Occurrences(matches, name, k) ==
    IF k > Len(matches) THEN <<>>
    ELSE (IF matches[k].flag = name THEN <<k>> ELSE <<>>)
         \o Occurrences(matches, name, k + 1)

\* ArgMatches::indices_of(name): the argv index of each value of the option
indices_of(matches, name) ==
    LET occ == Occurrences(matches, name, 1) IN [i \in DOMAIN occ |-> 2 * occ[i]]
\* ArgMatches::get_many::<HostPort>(name)
get_many(matches, name) ==
    LET occ == Occurrences(matches, name, 1) IN [i \in DOMAIN occ |-> matches[occ[i]].value]

\* collect_resolvers: returns `ordered` with the (index, spec) pairs appended
collect_resolvers(matches, name, mode, ordered) ==
    LET indices == indices_of(matches, name)
        values == get_many(matches, name)
    IN IF Len(indices) # Len(values)
       THEN Err("Mismatched arguments")
       ELSE Ok(ordered \o [i \in DOMAIN indices |->
                    [idx |-> indices[i], spec |-> [resolver |-> values[i], mode |-> mode]]])

\* insert e after the last element whose key is <= e's key
RECURSIVE InsertByKey(_, _)
InsertByKey(sorted, e) ==
    IF sorted = <<>> THEN <<e>>
    ELSE IF Head(sorted).idx <= e.idx
         THEN <<Head(sorted)>> \o InsertByKey(Tail(sorted), e)
         ELSE <<e>> \o sorted
RECURSIVE SortFrom(_, _)
SortFrom(sorted, rest) ==
    IF rest = <<>> THEN sorted ELSE SortFrom(InsertByKey(sorted, Head(rest)), Tail(rest))
NoSort(ordered) == ordered
\* ordered.sort_by_key(|(idx, _)| *idx): a stable sort
sort_by_key(ordered) == SortFrom(<<>>, ordered)

build_resolvers(matches) ==
    LET r1 == collect_resolvers(matches, "resolver", "Recursive", <<>>) IN
    IF r1.tag = "Err" THEN r1
    ELSE LET r2 == collect_resolvers(matches, "authoritative", "Authoritative", r1.val) IN
         IF r2.tag = "Err" THEN r2
         ELSE IF r2.val = <<>> THEN Err("At least one resolver is required")
         ELSE LET ordered == sort_by_key(r2.val) IN
              Ok([i \in DOMAIN ordered |-> ordered[i].spec])

BuildResolversInit ==
    /\ g_matches \in SeqsUpTo(CliOptions, MaxArgs)
    /\ g_built = Pending
    /\ v_specs = <<>> /\ v_resolved = Pending
    /\ FragIdle
    /\ RtIdle
    /\ SendIdle
    /\ RecvIdle
    /\ SrvIdle
    /\ StrIdle
    /\ MainIdle
    /\ PathIdle
    /\ TickIdle
    /\ CloseIdle
    /\ WrapIdle

BuildResolvers ==
    /\ g_built = Pending
    /\ g_built' = build_resolvers(g_matches)
    /\ UNCHANGED <<g_matches, v_specs, v_resolved,
                   fragVars, rtVars, sendVars, recvVars, srvVars, strVars, mainVars, pathVars, tickVars, closeVars, wrapVars>>

BuildResolversNext == BuildResolvers
BuildResolversSpec == BuildResolversInit /\ [][BuildResolversNext]_vars

-----------------------------------------------------------------------------
(* ResolveSpec: resolve_resolvers in dns/resolver.rs.                       *)

Localhost4 == <<127, 0, 0, 1>>
Localhost6 == <<0, 0, 0, 0, 0, 0, 0, 0, 0, 0, 0, 0, 0, 0, 0, 1>>

\* host.parse::<Ipv4Addr>()
ParseIpv4Addr(host) ==
    CASE host = "127.0.0.1" -> Some(Localhost4)
      [] host = "10.0.0.1" -> Some(<<10, 0, 0, 1>>)
      [] OTHER -> None
\* host.parse::<Ipv6Addr>()
ParseIpv6Addr(host) ==
    CASE host = "::ffff:127.0.0.1" ->
            Some(<<0, 0, 0, 0, 0, 0, 0, 0, 0, 0, 255, 255, 127, 0, 0, 1>>)
      [] host = "::1" -> Some(Localhost6)
      [] OTHER -> None
\* the host part of addr_str: `format!("{}:{}", host, port)` for V4 and
\* `format!("[{}]:{}", host, port)` for V6
AddrStrHost(address) ==
    IF address.family = "V4" THEN address.host ELSE "[" \o address.host \o "]"
\* addr_str.to_socket_addrs() for a string that is not a socket address: the
\* text before the last colon is looked up by the system resolver, which
\* knows the names localhost and v4only.test, reads address literals, and
\* finds nothing for a name in brackets
to_socket_addrs(host, port) ==
    CASE host = "localhost" -> Ok(<<V6(Localhost6, port, 0, 0), V4(Localhost4, port)>>)
      [] host = "v4only.test" -> Ok(<<V4(Localhost4, port)>>)
      [] ParseIpv4Addr(host) # None -> Ok(<<V4(ParseIpv4Addr(host).val, port)>>)
      [] ParseIpv6Addr(host) # None -> Ok(<<V6(ParseIpv6Addr(host).val, port, 0, 0)>>)
      [] OTHER -> Err("lookup failed")

\* `for addr in addrs`: the first address of the family asked for
RECURSIVE FirstOfFamily(_, _)
FirstOfFamily(addrs, address) ==
    IF addrs = <<>>
    THEN Err("No " \o (IF address.family = "V4" THEN "IPv4" ELSE "IPv6")
                  \o " address found for " \o address.host)
    ELSE IF Head(addrs).fam = address.family THEN Ok(Head(addrs))
    ELSE FirstOfFamily(Tail(addrs), address)

resolve_host_port(address) ==
    LET ip4 == ParseIpv4Addr(address.host)
        ip6 == ParseIpv6Addr(address.host)
    IN IF address.family = "V4" /\ ip4 # None THEN Ok(V4(ip4.val, address.port))
       ELSE IF address.family = "V6" /\ ip6 # None THEN Ok(V6(ip6.val, address.port, 0, 0))
       ELSE LET addrs == to_socket_addrs(AddrStrHost(address), address.port) IN
            IF addrs.tag = "Err" THEN Err("Cannot resolve " \o address.host)
            ELSE FirstOfFamily(addrs.val, address)

ResolverState(addr, mode, idx) ==
    [addr |-> addr, mode |-> mode, added |-> (idx = 0),
     path_id_tquic |-> IF idx = 0 THEN Some(0) ELSE None,
     probe_attempts |-> 0, next_probe_at |-> 0, pending_polls |-> 0,
     inflight_poll_ids |-> <<>>]

\* HashMap::get that never finds the key
NeverSeen(seen, addr) == None
\* seen.get(&addr)
SeenGet(seen, addr) == IF addr \in DOMAIN seen THEN Some(seen[addr]) ELSE None

\* the loop of resolve_resolvers from position idx (0-based) on
RECURSIVE ResolveFrom(_, _, _, _)
ResolveFrom(resolvers, idx, seen, resolved) ==
    IF idx >= Len(resolvers) THEN Ok(resolved)
    ELSE LET resolver == resolvers[idx + 1]
             r == resolve_host_port(resolver.resolver)
         IN IF r.tag = "Err" THEN r
            ELSE LET addr == normalize_dual_stack_addr(r.val) IN
                 IF SeenGet(seen, addr) # None
                 THEN Err("Duplicate resolver address")
                 ELSE ResolveFrom(resolvers, idx + 1,
                                  MapInsert(seen, addr, resolver.mode),
                                  Append(resolved, ResolverState(addr, resolver.mode, idx)))

resolve_resolvers(resolvers) == ResolveFrom(resolvers, 0, << >>, <<>>)

ResolveHostPorts ==
    { HostPort("127.0.0.1", 8853, "V4"), HostPort("::ffff:127.0.0.1", 8853, "V6"),
      HostPort("127.0.0.1", 53, "V4"), HostPort("10.0.0.1", 8853, "V4"),
      HostPort("v4only.test", 8853, "V4"), HostPort("localhost", 8853, "V6"),
      HostPort("v4only.test", 8853, "V6"), HostPort("nohost.invalid", 8853, "V4"),
      HostPort("::1", 53, "V4") }
ResolverSpecs ==
    { [resolver |-> hp, mode |-> m] : hp \in ResolveHostPorts, m \in {"Recursive", "Authoritative"} }

ResolveInit ==
    /\ v_specs \in SeqsUpTo(ResolverSpecs, MaxSpecs)
    /\ v_resolved = Pending
    /\ g_matches = <<>> /\ g_built = Pending
    /\ FragIdle
    /\ RtIdle
    /\ SendIdle
    /\ RecvIdle
    /\ SrvIdle
    /\ StrIdle
    /\ MainIdle
    /\ PathIdle
    /\ TickIdle
    /\ CloseIdle
    /\ WrapIdle

ResolveResolvers ==
    /\ v_resolved = Pending
    /\ v_resolved' = resolve_resolvers(v_specs)
    /\ UNCHANGED <<g_matches, g_built, v_specs,
                   fragVars, rtVars, sendVars, recvVars, srvVars, strVars, mainVars, pathVars, tickVars, closeVars, wrapVars>>

ResolveNext == ResolveResolvers
ResolveSpec == ResolveInit /\ [][ResolveNext]_vars

-----------------------------------------------------------------------------
(* DetectSpec: is_fragmented applied to a byte string.                      *)

\* the magic byte, its neighbour, and a byte that opens no QUIC long header
DetectBytes == {0, FRAGMENT_MAGIC, 84}

DetectInit ==
    /\ fragments = EmptyBuffer /\ now = 0
    /\ op = "init" /\ result = None /\ before = EmptyBuffer
    /\ arg \in SeqsUpTo(DetectBytes, MaxDetectLen)
    /\ RtIdle
    /\ SendIdle
    /\ RecvIdle
    /\ SrvIdle
    /\ StrIdle
    /\ CfgIdle
    /\ MainIdle
    /\ PathIdle
    /\ TickIdle
    /\ CloseIdle
    /\ WrapIdle

\* is_fragmented(&data)
IsFragmented ==
    /\ op = "init"
    /\ op' = "is_fragmented"
    /\ result' = Some(is_fragmented(arg))
    /\ UNCHANGED <<fragments, now, arg, before, rtVars, sendVars, recvVars, srvVars, strVars, cfgVars, mainVars, pathVars, tickVars, closeVars, wrapVars>>

DetectNext == IsFragmented
DetectSpec == DetectInit /\ [][DetectNext]_vars

-----------------------------------------------------------------------------
(* NormalizeSpec: the client's and the server's normalize_dual_stack_addr   *)
(* applied once and twice to a socket address.                              *)

NormalizePorts == {0, 53, 65535}
NormalizeAddrs ==
    { V4(ip, port) : ip \in { <<127, 0, 0, 1>>, <<10, 0, 0, 1>>, <<0, 0, 0, 0>>,
                              <<255, 255, 255, 255>> },
                     port \in NormalizePorts }
    \cup { V6(ip, port, flowinfo, scope_id) :
             ip \in { <<0, 0, 0, 0, 0, 0, 0, 0, 0, 0, 255, 255, 127, 0, 0, 1>>,
                      <<0, 0, 0, 0, 0, 0, 0, 0, 0, 0, 0, 0, 127, 0, 0, 1>>,
                      <<0, 0, 0, 0, 0, 0, 0, 0, 0, 0, 0, 0, 0, 0, 0, 1>>,
                      <<254, 128, 0, 0, 0, 0, 0, 0, 0, 0, 0, 0, 0, 0, 0, 1>> },
             port \in NormalizePorts, flowinfo \in {0, 7}, scope_id \in {0, 3} }

NormalizeInit ==
    /\ fragments = EmptyBuffer /\ now = 0
    /\ op = "init" /\ result = None /\ before = EmptyBuffer
    /\ arg \in NormalizeAddrs
    /\ RtIdle
    /\ SendIdle
    /\ RecvIdle
    /\ SrvIdle
    /\ StrIdle
    /\ CfgIdle
    /\ MainIdle
    /\ PathIdle
    /\ TickIdle
    /\ CloseIdle
    /\ WrapIdle

\* normalize_dual_stack_addr(addr), and the result normalized again, by both
\* implementations
Normalize ==
    /\ op = "init"
    /\ op' = "normalize"
    /\ result' = Some([client |-> normalize_dual_stack_addr(arg),
                       client_twice |->
                           normalize_dual_stack_addr(normalize_dual_stack_addr(arg)),
                       server |-> server_normalize_dual_stack_addr(arg),
                       server_twice |->
                           server_normalize_dual_stack_addr(
                               server_normalize_dual_stack_addr(arg))])
    /\ UNCHANGED <<fragments, now, arg, before, rtVars, sendVars, recvVars, srvVars, strVars, cfgVars, mainVars, pathVars, tickVars, closeVars, wrapVars>>

NormalizeNext == Normalize
NormalizeSpec == NormalizeInit /\ [][NormalizeNext]_vars

-----------------------------------------------------------------------------
(* PollBudgetSpec: cwnd_target_polls of the pacing module applied to a      *)
(* congestion window and an mtu.                                            *)

\* (mutant) the quotient rounded down
cwnd_target_polls_Floor(cwnd, mtu) == Max(1, cwnd \div mtu)
\* cwnd_target_polls(cwnd_bytes, mtu) = max(1, ceil(cwnd_bytes / mtu))
cwnd_target_polls(cwnd, mtu) == Max(1, CeilDiv(cwnd, mtu))

PollBudgetInputs ==
    { <<cwnd, mtu>> : cwnd \in 0..MaxCwnd, mtu \in 1..MaxMtu }
    \cup { <<9000, 1200>>, <<3600, 1200>>, <<0, 1200>>, <<1200, 1200>>, <<1201, 1200>> }

PollBudgetInit ==
    /\ fragments = EmptyBuffer /\ now = 0
    /\ op = "init" /\ result = None /\ before = EmptyBuffer
    /\ arg \in PollBudgetInputs
    /\ RtIdle
    /\ SendIdle
    /\ RecvIdle
    /\ SrvIdle
    /\ StrIdle
    /\ CfgIdle
    /\ MainIdle
    /\ PathIdle
    /\ TickIdle
    /\ CloseIdle
    /\ WrapIdle

\* let target = cwnd_target_polls(quality.cwin, mtu)
CwndTargetPolls ==
    /\ op = "init"
    /\ op' = "cwnd_target_polls"
    /\ result' = Some(cwnd_target_polls(arg[1], arg[2]))
    /\ UNCHANGED <<fragments, now, arg, before, rtVars, sendVars, recvVars, srvVars, strVars, cfgVars, mainVars, pathVars, tickVars, closeVars, wrapVars>>

PollBudgetNext == CwndTargetPolls
PollBudgetSpec == PollBudgetInit /\ [][PollBudgetNext]_vars

-----------------------------------------------------------------------------
(* The client process: main (main.rs) from the command line to the exit     *)
(* code, through clap, build_resolvers and run_client                       *)

MaxMainArgs == 3

\* parse_resolver = parse_host_port(input, 53, Resolver) on the texts used here
parse_resolver(input) ==
    CASE input = "127.0.0.1" -> Ok(HostPort("127.0.0.1", 53, "V4"))
      [] input = "127.0.0.1:53" -> Ok(HostPort("127.0.0.1", 53, "V4"))
      [] input = "[::ffff:127.0.0.1]" -> Ok(HostPort("::ffff:127.0.0.1", 53, "V6"))
      [] input = "10.0.0.1:8853" -> Ok(HostPort("10.0.0.1", 8853, "V4"))
      [] input = "nohost.invalid" -> Ok(HostPort("nohost.invalid", 53, "V4"))
      [] input = "127.0.0.1:0" -> Err("Invalid port number in resolver address")
      [] input = "127.0.0.1:" -> Err("Invalid port number in resolver address")
      [] OTHER -> Err("Invalid resolver address")
\* parse_domain = normalize_domain: trims, strips trailing dots, rejects empty
parse_domain(input) ==
    CASE input = "example.com" -> Ok("example.com")
      [] input = "example.com." -> Ok("example.com")
      [] OTHER -> Err("Domain must not be empty")

ResolverTexts ==
    { "127.0.0.1", "127.0.0.1:53", "[::ffff:127.0.0.1]", "10.0.0.1:8853",
      "nohost.invalid", "127.0.0.1:0" }
DomainTexts == { "example.com", "example.com.", "." }
MainOptions ==
    { [flag |-> f, text |-> t] : f \in {"resolver", "authoritative"}, t \in ResolverTexts }
    \cup { [flag |-> "domain", text |-> t] : t \in DomainTexts }

\* the value parser clap runs on an option's text
value_parser(o) ==
    IF o.flag = "domain" THEN parse_domain(o.text) ELSE parse_resolver(o.text)

\* Args::command().get_matches() and Args::from_arg_matches: every value must
\* parse, the group "resolvers" is required and so is --domain
get_matches(argv) ==
    IF \E i \in DOMAIN argv : value_parser(argv[i]).tag = "Err"
    THEN Err("invalid value")
    ELSE IF \A i \in DOMAIN argv : argv[i].flag = "domain"
    THEN Err("the following required arguments were not provided: resolvers")
    ELSE IF \A i \in DOMAIN argv : argv[i].flag # "domain"
    THEN Err("the following required arguments were not provided: --domain")
    ELSE Ok([i \in DOMAIN argv |->
                [flag |-> argv[i].flag, value |-> value_parser(argv[i]).val]])

\* the domain given on the command line
MainDomain(matches) ==
    matches[CHOOSE i \in DOMAIN matches : matches[i].flag = "domain"].value

BASE_MTU == 1200
\* compute_mtu(domain_len) for a domain of the given length
compute_mtu(domain_len) ==
    IF domain_len >= BASE_MTU THEN Err("Domain too long for DNS tunneling")
    ELSE Ok(BASE_MTU - domain_len)
\* str::len of the domains used here
DomainLen(domain) == IF domain = "example.com" THEN 11 ELSE 0

Exit(code, at) == Some([code |-> code, at |-> at])

MainInit ==
    /\ m_argv \in { a \in SeqsUpTo(MainOptions, MaxMainArgs) :
                       Len(Occurrences(a, "domain", 1)) <= 1 }
    /\ m_pc = "start" /\ m_exit = None
    /\ CfgIdle
    /\ FragIdle
    /\ RtIdle
    /\ SendIdle
    /\ RecvIdle
    /\ SrvIdle
    /\ StrIdle
    /\ PathIdle
    /\ TickIdle
    /\ CloseIdle
    /\ WrapIdle

\* main, lines 62-63: clap parses the command line and exits by itself (code 2)
\* when it rejects it
ClapGetMatches ==
    /\ m_pc = "start"
    /\ LET m == get_matches(m_argv) IN
       IF m.tag = "Err"
       THEN /\ m_pc' = "exited" /\ m_exit' = Exit(2, "clap")
            /\ UNCHANGED g_matches
       ELSE /\ m_pc' = "build" /\ g_matches' = m.val
            /\ UNCHANGED m_exit
    /\ UNCHANGED <<m_argv, g_built, v_specs, v_resolved,
                   fragVars, rtVars, sendVars, recvVars, srvVars, strVars, pathVars, tickVars, closeVars, wrapVars>>

\* main, lines 64-67: build_resolvers, exit(2) on its error
MainBuildResolvers ==
    /\ m_pc = "build"
    /\ g_built' = build_resolvers(g_matches)
    /\ IF g_built'.tag = "Err"
       THEN /\ m_pc' = "exited" /\ m_exit' = Exit(2, "build_resolvers")
            /\ UNCHANGED v_specs
       ELSE /\ m_pc' = "run" /\ v_specs' = g_built'.val
            /\ UNCHANGED m_exit
    /\ UNCHANGED <<m_argv, g_matches, v_resolved,
                   fragVars, rtVars, sendVars, recvVars, srvVars, strVars, pathVars, tickVars, closeVars, wrapVars>>

\* run_client up to the event loop (lines 61-120) and main's match on its
\* result (lines 86-92): every error of the set-up is Err, hence exit(1).
\* io_ok: the sockets bind, the QUIC client is created and connects
RunClientSetup(io_ok) ==
    /\ m_pc = "run"
    /\ LET mtu == compute_mtu(DomainLen(MainDomain(g_matches)))
           r == IF mtu.tag = "Err" THEN Pending ELSE resolve_resolvers(v_specs)
       IN /\ v_resolved' = r
          /\ IF mtu.tag = "Err" THEN
                m_pc' = "exited" /\ m_exit' = Exit(1, "compute_mtu")
             ELSE IF r.tag = "Err" THEN
                m_pc' = "exited" /\ m_exit' = Exit(1, "resolve_resolvers")
             ELSE IF r.val = <<>> THEN
                m_pc' = "exited" /\ m_exit' = Exit(1, "no resolver")
             ELSE IF ~io_ok THEN
                m_pc' = "exited" /\ m_exit' = Exit(1, "setup")
             ELSE m_pc' = "loop" /\ UNCHANGED m_exit
    /\ UNCHANGED <<m_argv, g_matches, g_built, v_specs,
                   fragVars, rtVars, sendVars, recvVars, srvVars, strVars, pathVars, tickVars, closeVars, wrapVars>>

\* the event loop ends: by an error (return Err, exit(1)) or by the break on
\* a closing connection followed by conn.close and Ok(0) (exit(0)), unless
\* close itself fails
RunClientEnd(outcome) ==
    /\ m_pc = "loop"
    /\ m_pc' = "exited"
    /\ m_exit' = CASE outcome = "closed" -> Exit(0, "end")
                   [] outcome = "close failed" -> Exit(1, "close")
                   [] OTHER -> Exit(1, "loop")
    /\ UNCHANGED <<m_argv, cfgVars,
                   fragVars, rtVars, sendVars, recvVars, srvVars, strVars, pathVars, tickVars, closeVars, wrapVars>>

MainNext ==
    \/ ClapGetMatches
    \/ MainBuildResolvers
    \/ \E io_ok \in BOOLEAN : RunClientSetup(io_ok)
    \/ \E outcome \in {"closed", "close failed", "error"} : RunClientEnd(outcome)

MainSpec == MainInit /\ [][MainNext]_vars

-----------------------------------------------------------------------------
(* The wait of one iteration of the client loop (run_client, lines 179-215) *)

DNS_WAKE_DELAY_MAX_US == 10000000
DNS_POLL_SLICE_US == 50000
MaxWakeSecs == 11

\* std::time::Duration: whole seconds and the nanoseconds of the last second
Duration(secs, nanos) == [secs |-> secs, nanos |-> nanos]
\* Duration::as_micros: whole microseconds, the rest is dropped
as_micros(dur) == dur.secs * 1000000 + dur.nanos \div 1000
\* u64::clamp(min, max) and u64::max
clamp(x, lo, hi) == IF x < lo THEN lo ELSE IF x > hi THEN hi ELSE x

\* lines 180-183: the delay the QUIC connection asks for, 10 s when it has none
delay_us(conn_timeout) ==
    IF conn_timeout = None THEN DNS_WAKE_DELAY_MAX_US ELSE as_micros(conn_timeout.val)
\* lines 210-214
wake_timeout_us(conn_timeout, has_work) ==
    IF has_work
    THEN clamp(delay_us(conn_timeout), 1, DNS_POLL_SLICE_US)
    ELSE Max(delay_us(conn_timeout), 1)

\* what conn.timeout() may report
ConnTimeouts ==
    {None} \cup
    { Some(Duration(secs, nanos)) :
        secs \in 0..MaxWakeSecs,
        nanos \in {0, 500, 1000, 49999999, 50000000, 50001000, 999999999} }

WakeInit ==
    /\ fragments = <<>> /\ now = 0 /\ before = <<>>
    /\ op = "init" /\ result = None
    /\ arg \in ConnTimeouts \X BOOLEAN
    /\ RtIdle
    /\ SendIdle
    /\ RecvIdle
    /\ SrvIdle
    /\ StrIdle
    /\ CfgIdle
    /\ MainIdle
    /\ PathIdle
    /\ TickIdle
    /\ CloseIdle
    /\ WrapIdle

\* one pass through lines 179-215 with conn.timeout() = arg[1], has_work = arg[2]
ComputeWakeTimeout ==
    /\ op = "init"
    /\ op' = "wake_timeout"
    /\ result' = Some(wake_timeout_us(arg[1], arg[2]))
    /\ UNCHANGED <<fragments, now, arg, before,
                   rtVars, sendVars, recvVars, srvVars, strVars, cfgVars, mainVars, pathVars, tickVars, closeVars, wrapVars>>

WakeNext == ComputeWakeTimeout

WakeSpec == WakeInit /\ [][WakeNext]_vars

-----------------------------------------------------------------------------
(* The client's paths: probe_path for the secondary resolvers once the      *)
(* connection is ready (run_client) and drain_path_events_tquic (path.rs)   *)

MaxResolvers == 3
MaxTicks == 1

ResolverModes == {"Recursive", "Authoritative"}

\* the fields of the ResolverState that resolve_resolvers builds for
\* position i (1 is the primary)
NewResolver(i, mode) ==
    [mode |-> mode, added |-> (i = 1),
     path_id_tquic |-> IF i = 1 THEN Some(0) ELSE None,
     probe_attempts |-> 0, next_probe_at |-> 0,
     pending_polls |-> 0, inflight_poll_ids |-> <<>>]

\* the number of probes among the first k that succeeded
RECURSIVE Succeeded(_, _)
Succeeded(outcomes, k) ==
    IF k = 0 THEN 0 ELSE Succeeded(outcomes, k - 1) + (IF outcomes[k] THEN 1 ELSE 0)

\* `for resolver in resolvers.iter_mut().skip(1) { if !resolver.added {`
ShouldProbe_Never(i, resolver) == FALSE
ShouldProbe(i, resolver) == i > 1 /\ ~resolver.added

\* the first position whose resolver has no path id and is not added, 0 if none
RECURSIVE FirstUnassigned(_, _)
FirstUnassigned(resolvers, i) ==
    IF i > Len(resolvers) THEN 0
    ELSE IF resolvers[i].path_id_tquic = None /\ ~resolvers[i].added THEN i
    ELSE FirstUnassigned(resolvers, i + 1)

\* find_resolver_by_path_id_mut: the first position with that path id, 0 if none
RECURSIVE find_resolver_by_path_id(_, _, _)
find_resolver_by_path_id(resolvers, path_id, i) ==
    IF i > Len(resolvers) THEN 0
    ELSE IF resolvers[i].path_id_tquic = Some(path_id) THEN i
    ELSE find_resolver_by_path_id(resolvers, path_id, i + 1)

\* reset_resolver_path_tquic
reset_resolver_path_tquic(resolver) ==
    [resolver EXCEPT !.path_id_tquic = None, !.added = FALSE]

\* the body of `match event` in drain_path_events_tquic
HandlePathEvent(resolvers, event) ==
    CASE event.kind = "Available" ->
            LET i == FirstUnassigned(resolvers, 1) IN
            IF i = 0 THEN resolvers
            ELSE [resolvers EXCEPT ![i].path_id_tquic = Some(event.path_id),
                                   ![i].added = TRUE]
      [] event.kind = "Deleted" ->
            LET i == find_resolver_by_path_id(resolvers, event.path_id, 1) IN
            IF i = 0 THEN resolvers
            ELSE [resolvers EXCEPT ![i] = reset_resolver_path_tquic(resolvers[i])]
      [] OTHER -> resolvers

\* drain_path_events_tquic: `for event in events`
RECURSIVE drain_path_events_tquic(_, _)
drain_path_events_tquic(resolvers, events) ==
    IF events = <<>> THEN resolvers
    ELSE drain_path_events_tquic(HandlePathEvent(resolvers, Head(events)), Tail(events))

\* apply_path_mode_tquic on every added resolver (lines 383-388):
\* refresh_resolver_path_tquic is true when the resolver has a path id
\* (path_info always answers), and then added is set
apply_path_modes(resolvers) ==
    [i \in DOMAIN resolvers |->
        IF resolvers[i].added /\ resolvers[i].path_id_tquic # None
        THEN [resolvers[i] EXCEPT !.added = TRUE]
        ELSE resolvers[i]]

PathInit ==
    /\ \E n \in 1..MaxResolvers : \E modes \in [1..n -> ResolverModes] :
          p_resolvers = [i \in 1..n |-> NewResolver(i, modes[i])]
    /\ p_conn = "handshake" /\ p_ready = FALSE /\ p_ticks = 0 /\ p_pc = "top"
    /\ p_probed = [i \in DOMAIN p_resolvers |-> None]
    /\ p_calls = <<>>
    /\ p_events = <<>>
    /\ FragIdle
    /\ RtIdle
    /\ SendIdle
    /\ RecvIdle
    /\ SrvIdle
    /\ StrIdle
    /\ CfgIdle
    /\ MainIdle
    /\ TickIdle
    /\ CloseIdle
    /\ WrapIdle

\* the handshake completes: conn.is_ready() is true from now on
ConnReady ==
    /\ p_conn = "handshake"
    /\ p_conn' = "ready"
    /\ UNCHANGED <<p_resolvers, p_ready, p_probed, p_calls, p_events, p_ticks, p_pc,
                   fragVars, rtVars, sendVars, recvVars, srvVars, strVars, cfgVars, mainVars, tickVars, closeVars, wrapVars>>

\* lines 140-158, at the top of an iteration: `if conn.is_ready() && !ready`;
\* probe_path for every resolver after the first that is not added.
\* outcomes[i]: probe_path succeeds for resolver i; the connection numbers
\* its new paths 1, 2, ...
ProbePaths(outcomes) ==
    /\ p_pc = "top"
    /\ p_conn = "ready" /\ ~p_ready
    /\ p_ready' = TRUE
    /\ LET called == SelectSeq([i \in DOMAIN p_resolvers |-> i],
                               LAMBDA i : ShouldProbe(i, p_resolvers[i]))
           ok == [i \in DOMAIN p_resolvers |->
                     ShouldProbe(i, p_resolvers[i]) /\ outcomes[i]]
           probe(i) == IF ok[i] THEN Some(Succeeded(ok, i)) ELSE None
       IN /\ p_calls' = p_calls \o called
          /\ p_probed' = [i \in DOMAIN p_resolvers |-> probe(i)]
          /\ p_resolvers' = [i \in DOMAIN p_resolvers |->
                               IF probe(i) # None
                               THEN [p_resolvers[i] EXCEPT !.path_id_tquic = probe(i)]
                               ELSE p_resolvers[i]]
    /\ UNCHANGED <<p_conn, p_events, p_ticks, p_pc,
                   fragVars, rtVars, sendVars, recvVars, srvVars, strVars, cfgVars, mainVars, tickVars, closeVars, wrapVars>>

\* drain_path_events_tquic at line 166, after the probe block; the body of
\* the iteration follows.  conn.drain_path_events() takes
\* ConnectionState.path_events, which is created empty and to which nothing
\* in this build appends: the handler always gets the empty list
DrainPathEvents ==
    /\ p_pc = "top"
    /\ p_conn = "ready" => p_ready
    /\ p_pc' = "body"
    /\ p_resolvers' = drain_path_events_tquic(p_resolvers, p_events)
    /\ p_events' = <<>>
    /\ UNCHANGED <<p_conn, p_ready, p_probed, p_calls, p_ticks,
                   fragVars, rtVars, sendVars, recvVars, srvVars, strVars, cfgVars, mainVars, tickVars, closeVars, wrapVars>>

\* the end of an iteration (lines 329-388): the packets of poll_send are sent
\* as queries, then drain_path_events_tquic and the apply_path_mode_tquic
\* loop; no other query is built and no resolver field is written
EndTick ==
    /\ p_pc = "body"
    /\ p_pc' = "top"
    /\ p_ticks' = IF p_ticks < MaxTicks THEN p_ticks + 1 ELSE p_ticks
    /\ p_resolvers' = apply_path_modes(drain_path_events_tquic(p_resolvers, p_events))
    /\ p_events' = <<>>
    /\ UNCHANGED <<p_conn, p_ready, p_probed, p_calls,
                   fragVars, rtVars, sendVars, recvVars, srvVars, strVars, cfgVars, mainVars, tickVars, closeVars, wrapVars>>

PathNext ==
    \/ ConnReady
    \/ \E outcomes \in [DOMAIN p_resolvers -> BOOLEAN] : ProbePaths(outcomes)
    \/ DrainPathEvents
    \/ EndTick

PathSpec == PathInit /\ [][PathNext]_vars

\* the loop keeps iterating: the probe block, the drains and the rest of an
\* iteration never block (the select sleeps 10 s at most)
PathFairSpec ==
    /\ PathSpec
    /\ WF_vars(\E outcomes \in [DOMAIN p_resolvers -> BOOLEAN] : ProbePaths(outcomes))
    /\ WF_vars(DrainPathEvents)
    /\ WF_vars(EndTick)

-----------------------------------------------------------------------------
(* The expiry of in-flight poll ids (dns/poll.rs) and its call in the loop  *)

AUTHORITATIVE_POLL_TIMEOUT_US == 5000000
MaxPollIds == 2

\* the map without the keys outside keep
Retain(map, keep) == [id \in (DOMAIN map) \cap keep |-> map[id]]

\* expire_inflight_polls: every id with sent_at <= expire_before is removed
expire_inflight_polls(inflight_poll_ids, current_time_us) ==
    IF DOMAIN inflight_poll_ids = {} THEN inflight_poll_ids
    ELSE LET expire_before == saturating_sub(current_time_us, AUTHORITATIVE_POLL_TIMEOUT_US)
             expired == {id \in DOMAIN inflight_poll_ids :
                            inflight_poll_ids[id] <= expire_before}
         IN Retain(inflight_poll_ids, (DOMAIN inflight_poll_ids) \ expired)

\* lines 173-177 for one resolver: only authoritative resolvers are expired
expire_resolver(resolver, current_time_us) ==
    IF resolver.mode = "Authoritative"
    THEN [resolver EXCEPT !.inflight_poll_ids =
              expire_inflight_polls(resolver.inflight_poll_ids, current_time_us)]
    ELSE resolver

\* times in microseconds around the timeout
PollTimes ==
    {0, 1, AUTHORITATIVE_POLL_TIMEOUT_US - 1, AUTHORITATIVE_POLL_TIMEOUT_US,
     AUTHORITATIVE_POLL_TIMEOUT_US + 1, 2 * AUTHORITATIVE_POLL_TIMEOUT_US}
PollMaps == UNION {[ids -> PollTimes] : ids \in SUBSET (1..MaxPollIds)}

\* arg[1]: a resolver with poll ids in flight, arg[2]: the current time
ExpireInit ==
    /\ fragments = <<>> /\ now = 0 /\ before = <<>>
    /\ op = "init" /\ result = None
    /\ arg \in {[NewResolver(1, mode) EXCEPT !.inflight_poll_ids = map] :
                    mode \in ResolverModes, map \in PollMaps} \X PollTimes
    /\ RtIdle
    /\ SendIdle
    /\ RecvIdle
    /\ SrvIdle
    /\ StrIdle
    /\ CfgIdle
    /\ MainIdle
    /\ PathIdle
    /\ TickIdle
    /\ CloseIdle
    /\ WrapIdle

\* lines 168-177 of the loop for the resolver arg[1] at the time arg[2]
ExpireInflightPolls ==
    /\ op = "init"
    /\ op' = "expire_inflight_polls"
    /\ result' = Some(expire_resolver(arg[1], arg[2]))
    /\ UNCHANGED <<fragments, now, arg, before,
                   rtVars, sendVars, recvVars, srvVars, strVars, cfgVars, mainVars, pathVars, tickVars, closeVars, wrapVars>>

ExpireNext == ExpireInflightPolls

ExpireSpec == ExpireInit /\ [][ExpireNext]_vars

-----------------------------------------------------------------------------
(* has_work and the wait of one iteration (run_client, lines 179-214)       *)

MaxStreams == 2

\* ClientConnection::cwnd: this build reports no congestion window
conn_cwnd == 0

\* fetch_path_quality_tquic: path_info answers for every path id with
\* cwnd = conn.cwnd() and bytes_in_flight = 0; the fallback is the same
fetch_path_quality_tquic(resolver) == [cwin |-> conn_cwnd, bytes_in_transit |-> 0]

\* inflight_packet_estimate(bytes_in_flight, mtu): the packets of one mtu that
\* hold the bytes in flight
inflight_packet_estimate(bytes_in_flight, mtu) == CeilDiv(bytes_in_flight, mtu)

\* `let pending_for_sleep = match resolver.mode`
pending_for_sleep(resolver, mtu) ==
    IF resolver.mode = "Authoritative"
    THEN LET quality == fetch_path_quality_tquic(resolver) IN
         saturating_sub(cwnd_target_polls(quality.cwin, mtu),
                        inflight_packet_estimate(quality.bytes_in_transit, mtu))
    ELSE resolver.pending_polls

\* lines 184-208: only added resolvers are looked at
has_work(streams_len, resolvers, mtu) ==
    \/ streams_len > 0
    \/ \E i \in DOMAIN resolvers :
          /\ resolvers[i].added
          /\ \/ pending_for_sleep(resolvers[i], mtu) > 0
             \/ /\ resolvers[i].mode = "Authoritative"
                /\ resolvers[i].inflight_poll_ids # <<>>

\* the resolver lists the loop can hold: the primary is installed; a secondary
\* is either as parsed or holds the path id its probe_path call returned, and
\* is not added
HasWorkResolvers ==
    UNION {{[i \in 1..n |->
                IF i > 1 /\ probed[i]
                THEN [NewResolver(i, modes[i]) EXCEPT
                         !.path_id_tquic = Some(Succeeded([k \in 1..n |-> k > 1 /\ probed[k]], i))]
                ELSE NewResolver(i, modes[i])] :
            modes \in [1..n -> ResolverModes], probed \in [1..n -> BOOLEAN]} :
           n \in 1..MaxResolvers}

\* arg[1]: streams.len(), arg[2]: the resolvers, arg[3]: conn.timeout()
HasWorkInit ==
    /\ fragments = <<>> /\ now = 0 /\ before = <<>>
    /\ op = "init" /\ result = None
    /\ arg \in (0..MaxStreams) \X HasWorkResolvers \X ConnTimeouts
    /\ RtIdle
    /\ SendIdle
    /\ RecvIdle
    /\ SrvIdle
    /\ StrIdle
    /\ CfgIdle
    /\ MainIdle
    /\ PathIdle
    /\ TickIdle
    /\ CloseIdle
    /\ WrapIdle

\* one pass through lines 179-214; the mtu is the one of the domain example.com
ComputeHasWork ==
    /\ op = "init"
    /\ op' = "has_work"
    /\ LET work == has_work(arg[1], arg[2], compute_mtu(DomainLen("example.com")).val)
       IN result' = Some([has_work |-> work, timeout_us |-> wake_timeout_us(arg[3], work)])
    /\ UNCHANGED <<fragments, now, arg, before,
                   rtVars, sendVars, recvVars, srvVars, strVars, cfgVars, mainVars, pathVars, tickVars, closeVars, wrapVars>>

HasWorkNext == ComputeHasWork

HasWorkSpec == HasWorkInit /\ [][HasWorkNext]_vars

-----------------------------------------------------------------------------
(* TickSpec: the command channel in one iteration of run_client.  The       *)
(* select handles at most one command, the readable streams are read        *)
(* (lines 296-315), the drain (lines 317-327) handles commands until        *)
(* try_recv finds the channel empty, and only then conn.poll_send is called *)
(* (line 330).  The acceptor and the reader tasks send commands at any      *)
(* time.                                                                    *)

\* command_rx.try_recv(): the oldest command, or Err(Empty)
try_recv_Empty(ch) == Err("Empty")
try_recv(ch) == IF ch = <<>> THEN Err("Empty") ELSE Ok(Head(ch))

TickInit ==
    /\ StrIdle
    /\ TickIdle
    /\ CloseIdle
    /\ WrapIdle
    /\ FragIdle
    /\ RtIdle
    /\ SendIdle
    /\ RecvIdle
    /\ SrvIdle
    /\ CfgIdle
    /\ MainIdle
    /\ PathIdle

\* lines 217-294: one arm of the select runs; the command arm handles the
\* command it received.  The stream reads of lines 296-315 follow.
SelectArm(arm, ok) ==
    /\ k_pc = "select"
    /\ k_ticks < MaxTicks
    /\ IF arm = "command"
       THEN t_cmds # <<>> /\ handle_command(ok)
       ELSE UNCHANGED strVars
    /\ k_pc' = "read"
    /\ k_read' = {}
    /\ k_queued' = t_cmds'
    /\ k_handled' = 0
    /\ UNCHANGED <<k_polls, k_ticks,
                   fragVars, rtVars, sendVars, recvVars, srvVars, cfgVars, mainVars, pathVars, closeVars, wrapVars>>

\* lines 297-315, one turn of `for stream_id in conn.readable_streams()`:
\* each readable stream is read once in an iteration
TickStreamRead(s, n, fin) ==
    /\ k_pc = "read"
    /\ s \notin k_read
    /\ stream_read(s, n, fin)
    /\ k_read' = k_read \cup {s}
    /\ UNCHANGED <<k_pc, k_queued, k_handled, k_polls, k_ticks,
                   fragVars, rtVars, sendVars, recvVars, srvVars, cfgVars, mainVars, pathVars, closeVars, wrapVars>>

\* lines 315-318: the for loop over the readable streams is over and the
\* drain starts, with what the channel then holds
StartDrain ==
    /\ k_pc = "read"
    /\ k_pc' = "drain"
    /\ k_queued' = t_cmds
    /\ k_handled' = 0
    /\ UNCHANGED <<k_read, k_polls, k_ticks, strVars,
                   fragVars, rtVars, sendVars, recvVars, srvVars, cfgVars, mainVars, pathVars, closeVars, wrapVars>>

\* lines 318-327: `while let Ok(command) = command_rx.try_recv()`
DrainCommand(ok) ==
    /\ k_pc = "drain"
    /\ try_recv(t_cmds).tag = "Ok"
    /\ handle_command(ok)
    /\ IF k_queued # <<>> /\ Head(k_queued) = try_recv(t_cmds).val
       THEN k_queued' = Tail(k_queued) /\ k_handled' = k_handled + 1
       ELSE UNCHANGED <<k_queued, k_handled>>
    /\ UNCHANGED <<k_pc, k_read, k_polls, k_ticks,
                   fragVars, rtVars, sendVars, recvVars, srvVars, cfgVars, mainVars, pathVars, closeVars, wrapVars>>

\* try_recv finds the channel empty: the drain ends and line 330 runs,
\* `let packets = conn.poll_send()`; the packets are then sent, and
\* udp.send_to is awaited for each query
PollSend ==
    /\ k_pc = "drain"
    /\ try_recv(t_cmds).tag = "Err"
    /\ k_polls' = Append(k_polls, [left |-> k_queued, handled |-> k_handled])
    /\ k_pc' = "send"
    /\ UNCHANGED <<k_read, k_queued, k_handled, k_ticks, strVars,
                   fragVars, rtVars, sendVars, recvVars, srvVars, cfgVars, mainVars, pathVars, closeVars, wrapVars>>

\* lines 335-388: the last query of the iteration is sent, the path events
\* are drained and the iteration ends
EndIteration ==
    /\ k_pc = "send"
    /\ k_pc' = "select"
    /\ k_ticks' = k_ticks + 1
    /\ UNCHANGED <<k_read, k_queued, k_handled, k_polls, strVars,
                   fragVars, rtVars, sendVars, recvVars, srvVars, cfgVars, mainVars, pathVars, closeVars, wrapVars>>

TickNext ==
    \/ Accept
    \/ \E s \in StreamIds : \E n \in 1..MaxChunk : ReaderData(s, n)
    \/ \E s \in StreamIds : \E cmd \in {"StreamClosed", "StreamReadError"} : ReaderEnd(s, cmd)
    \/ \E arm \in {"command", "notify", "udp", "sleep"} : \E ok \in BOOLEAN : SelectArm(arm, ok)
    \/ \E s \in StreamIds : \E n \in 0..MaxChunk : \E fin \in BOOLEAN : TickStreamRead(s, n, fin)
    \/ StartDrain
    \/ \E ok \in BOOLEAN : DrainCommand(ok)
    \/ PollSend
    \/ EndIteration
TickSpec == TickInit /\ [][TickNext]_vars

-----------------------------------------------------------------------------
(* ClassifySpec: the UDP arm of run_client for one datagram, drawn from     *)
(* envelopes with every small frag_num and total, short payloads that       *)
(* start with the magic byte, a raw QUIC datagram and bytes that are no DNS *)
(* response.                                                                *)

ClassifyPayloads ==
    { Envelope(packet_id, frag_num, total, payload) :
        packet_id \in {1, 515}, frag_num \in 0..2, total \in 0..2,
        payload \in {<<>>, <<7>>, <<8, 9>>} }
    \cup { <<FRAGMENT_MAGIC>>, <<FRAGMENT_MAGIC, 0, 1, 0>>, <<192, 0, 0, 0, 1, 7>> }
ClassifyDatagrams ==
    {[kind |-> "response", payload |-> p] : p \in ClassifyPayloads}
    \cup {[kind |-> "other", payload |-> <<192, 1>>]}

\* arg: the datagram udp.recv_from returns
ClassifyInit ==
    /\ fragments = EmptyBuffer /\ now = 0
    /\ op = "init" /\ result = None /\ before = EmptyBuffer
    /\ arg \in ClassifyDatagrams
    /\ r_pc = "select" /\ r_quic = <<>>
    /\ RtIdle
    /\ SendIdle
    /\ SrvIdle
    /\ StrIdle
    /\ CfgIdle
    /\ MainIdle
    /\ PathIdle
    /\ TickIdle
    /\ CloseIdle
    /\ WrapIdle

ClassifyNext == RecvDatagrams(<<arg>>)

ClassifySpec == ClassifyInit /\ [][ClassifyNext]_vars
-----------------------------------------------------------------------------
(* The end of the connection: on_conn_closed sets ConnectionState.closing   *)
(* while the loop calls into the connection (conn.recv, conn.on_timeout,    *)
(* conn.stream_write, conn.poll_send run endpoint.process_connections),     *)
(* run_client tests conn.is_closing() at the top of each iteration, and     *)
(* after the break it calls conn.close and returns.                         *)

MaxCloseInputs == 3

CloseInit ==
    /\ CloseIdle
    /\ WrapIdle
    /\ FragIdle
    /\ RtIdle
    /\ SendIdle
    /\ RecvIdle
    /\ SrvIdle
    /\ StrIdle
    /\ CfgIdle
    /\ MainIdle
    /\ PathIdle
    /\ TickIdle

\* ClientHandler::on_conn_closed, when the endpoint reports the close during
\* the call (closes); the only write of the field
on_conn_closed(closing, closes) == closing \/ closes

\* e_after once n more commands or datagrams are handled with the flag set
HandledAfter(kind, n) ==
    IF e_closing THEN [e_after EXCEPT ![kind] = @ + n] ELSE e_after

\* a DNS response reaches the socket, or a task sends a command
CloseArrive(kind) ==
    /\ e_pc # "returned"
    /\ e_arrived < MaxCloseInputs
    /\ e_arrived' = e_arrived + 1
    /\ IF kind = "datagram"
       THEN e_udp' = e_udp + 1 /\ UNCHANGED e_cmds
       ELSE e_cmds' = e_cmds + 1 /\ UNCHANGED e_udp
    /\ UNCHANGED <<e_pc, e_closing, e_after, e_close_calls, e_ret,
                   fragVars, rtVars, sendVars, recvVars, srvVars, strVars, cfgVars, mainVars, pathVars, tickVars, wrapVars>>

\* lines 160-163: `if conn.is_closing() { break; }`
CloseLoopTop ==
    /\ e_pc = "top"
    /\ e_pc' = IF e_closing THEN "close" ELSE "select"
    /\ UNCHANGED <<e_closing, e_udp, e_cmds, e_arrived, e_after, e_close_calls, e_ret,
                   fragVars, rtVars, sendVars, recvVars, srvVars, strVars, cfgVars, mainVars, pathVars, tickVars, wrapVars>>

\* what the awaited udp.recv_from returns (lines 231, 283-286), and how the
\* burst of try_recv_from ends (lines 255-281): "done" when the socket is
\* empty (WouldBlock => break) or packet_loop_recv_max is reached, "Other"
\* when try_recv_from fails otherwise (line 279).  Interrupted inside the
\* burst continues the burst (line 278)
RecvResults == {"Ok", "WouldBlock", "TimedOut", "Interrupted", "Other"}
BurstEnds == {"done", "Other"}

\* the messages of the errors that end the loop from inside an iteration
\* (lines 279, 286, 348, 357, 371, 376)
LoopErrors ==
    {"UDP recv error", "Failed to get max payload", "Failed to build qname",
     "Failed to encode DNS query", "Failed to send DNS"}

\* lines 217-294: one arm of the select.  The udp arm, when recv_from
\* returned a datagram, passes it and the n - 1 more of its burst to
\* conn.recv; the connection is closed by the k-th of them (k = 0: by none);
\* an error of the burst other than WouldBlock and Interrupted returns from
\* run_client.  When recv_from failed: WouldBlock and TimedOut go on with the
\* iteration, Interrupted continues the loop (line 285: the stream reads, the
\* drain and poll_send are skipped), any other error returns (line 286).
\* The command arm handles one command, the sleep arm calls conn.on_timeout.
CloseSelect(arm, n, k, recv, burst) ==
    /\ e_pc = "select"
    /\ CASE arm = "udp" /\ recv = "Ok" ->
              /\ n \in 1..e_udp /\ k \in 0..n
              /\ e_udp' = e_udp - n
              /\ e_closing' = on_conn_closed(e_closing, k > 0)
              /\ e_after' = IF k > 0 THEN [e_after EXCEPT !.datagrams = @ + (n - k)]
                            ELSE HandledAfter("datagrams", n)
              /\ IF burst = "Other"
                 THEN e_pc' = "returned" /\ e_ret' = Some(Err("UDP recv error"))
                 ELSE e_pc' = "drain" /\ UNCHANGED e_ret
              /\ UNCHANGED e_cmds
         [] arm = "udp" /\ recv \in {"WouldBlock", "TimedOut"} ->
              /\ n = 1 /\ k = 0 /\ burst = "done"
              /\ e_pc' = "drain"
              /\ UNCHANGED <<e_closing, e_udp, e_cmds, e_after, e_ret>>
         [] arm = "udp" /\ recv = "Interrupted" ->
              /\ n = 1 /\ k = 0 /\ burst = "done"
              /\ e_pc' = "top"
              /\ UNCHANGED <<e_closing, e_udp, e_cmds, e_after, e_ret>>
         [] arm = "udp" /\ recv = "Other" ->
              /\ n = 1 /\ k = 0 /\ burst = "done"
              /\ e_pc' = "returned" /\ e_ret' = Some(Err("UDP recv error"))
              /\ UNCHANGED <<e_closing, e_udp, e_cmds, e_after>>
         [] arm = "command" ->
              /\ n = 1 /\ e_cmds > 0 /\ k \in 0..1 /\ recv = "Ok" /\ burst = "done"
              /\ e_cmds' = e_cmds - 1
              /\ e_closing' = on_conn_closed(e_closing, k > 0)
              /\ e_after' = HandledAfter("commands", 1)
              /\ e_pc' = "drain"
              /\ UNCHANGED <<e_udp, e_ret>>
         [] arm = "sleep" ->
              /\ n = 1 /\ k \in 0..1 /\ recv = "Ok" /\ burst = "done"
              /\ e_closing' = on_conn_closed(e_closing, k > 0)
              /\ e_pc' = "drain"
              /\ UNCHANGED <<e_udp, e_cmds, e_after, e_ret>>
         [] arm = "notify" ->
              /\ n = 1 /\ k = 0 /\ recv = "Ok" /\ burst = "done"
              /\ e_pc' = "drain"
              /\ UNCHANGED <<e_closing, e_udp, e_cmds, e_after, e_ret>>
    /\ UNCHANGED <<e_arrived, e_close_calls,
                   fragVars, rtVars, sendVars, recvVars, srvVars, strVars, cfgVars, mainVars, pathVars, tickVars, wrapVars>>

\* lines 318-327: the drain handles one more command; its call into the
\* connection may report the close
CloseDrain(closes) ==
    /\ e_pc = "drain"
    /\ e_cmds > 0
    /\ e_cmds' = e_cmds - 1
    /\ e_after' = HandledAfter("commands", 1)
    /\ e_closing' = on_conn_closed(e_closing, closes)
    /\ UNCHANGED <<e_pc, e_udp, e_arrived, e_close_calls, e_ret,
                   fragVars, rtVars, sendVars, recvVars, srvVars, strVars, cfgVars, mainVars, pathVars, tickVars, wrapVars>>

\* line 330: the channel is empty; conn.poll_send, in which the connection
\* may become closing
ClosePollSend(closes) ==
    /\ e_pc = "drain"
    /\ e_cmds = 0
    /\ e_closing' = on_conn_closed(e_closing, closes)
    /\ e_pc' = "send"
    /\ UNCHANGED <<e_udp, e_cmds, e_arrived, e_after, e_close_calls, e_ret,
                   fragVars, rtVars, sendVars, recvVars, srvVars, strVars, cfgVars, mainVars, pathVars, tickVars, wrapVars>>

\* lines 335-388: the queries are built and sent, udp.send_to awaited for
\* each, which fails at one of the `?` (lines 348, 357, 371, 376) or not
\* ("ok"), and the iteration ends
SendResults ==
    {"ok", "Failed to get max payload", "Failed to build qname",
     "Failed to encode DNS query", "Failed to send DNS"}
CloseSend(io) ==
    /\ e_pc = "send"
    /\ IF io = "ok"
       THEN e_pc' = "top" /\ UNCHANGED e_ret
       ELSE e_pc' = "returned" /\ e_ret' = Some(Err(io))
    /\ UNCHANGED <<e_closing, e_udp, e_cmds, e_arrived, e_after, e_close_calls,
                   fragVars, rtVars, sendVars, recvVars, srvVars, strVars, cfgVars, mainVars, pathVars, tickVars, wrapVars>>

\* lines 391-395: conn.close(0, "client shutdown") and its `?`, then Ok(0)
CloseConn(ok) ==
    /\ e_pc = "close"
    /\ e_close_calls' = e_close_calls + 1
    /\ e_ret' = Some(IF ok THEN Ok(0) ELSE Err("Failed to close"))
    /\ e_pc' = "returned"
    /\ UNCHANGED <<e_closing, e_udp, e_cmds, e_arrived, e_after,
                   fragVars, rtVars, sendVars, recvVars, srvVars, strVars, cfgVars, mainVars, pathVars, tickVars, wrapVars>>

CloseNext ==
    \/ \E kind \in {"datagram", "command"} : CloseArrive(kind)
    \/ CloseLoopTop
    \/ \E arm \in {"udp", "command", "sleep", "notify"} :
           \E n \in 1..MaxCloseInputs : \E k \in 0..MaxCloseInputs :
               \E recv \in RecvResults : \E burst \in BurstEnds :
                   CloseSelect(arm, n, k, recv, burst)
    \/ \E closes \in BOOLEAN : CloseDrain(closes)
    \/ \E closes \in BOOLEAN : ClosePollSend(closes)
    \/ \E io \in SendResults : CloseSend(io)
    \/ \E ok \in BOOLEAN : CloseConn(ok)

CloseSpec == CloseInit /\ [][CloseNext]_vars
-----------------------------------------------------------------------------
(* The burst cap of the client's send loop: conn.poll_send takes every      *)
(* packet the connection has queued (PacketSender::take_packets), and the   *)
(* loop sends the first packet_loop_send_max of them (run_client, lines     *)
(* 329-378).                                                                *)

PACKET_LOOP_SEND_MAX == 64
AUTHORITATIVE_LOOP_MULTIPLIER == 4
MaxPackets == 66

\* path.rs: path_loop_multiplier and loop_burst_total (usize arithmetic, far
\* from saturation here)
path_loop_multiplier(mode) ==
    IF mode = "Authoritative" THEN AUTHORITATIVE_LOOP_MULTIPLIER ELSE 1
RECURSIVE loop_burst_total(_, _)
loop_burst_total(resolvers, base) ==
    IF resolvers = <<>> THEN 0
    ELSE loop_burst_total(SubSeq(resolvers, 1, Len(resolvers) - 1), base)
         + base * path_loop_multiplier(resolvers[Len(resolvers)].mode)

\* the packets numbered a..b, in order
PacketRun(a, b) == [k \in 1..(b - a + 1) |-> a + k - 1]

BurstInit ==
    /\ \E n \in 1..MaxResolvers : \E modes \in [1..n -> ResolverModes] :
          p_resolvers = [i \in 1..n |-> NewResolver(i, modes[i])]
    /\ p_ready = FALSE /\ p_probed = <<>>
    /\ p_events = <<>>
    /\ p_conn = "handshake" /\ p_calls = <<>> /\ p_ticks = 0 /\ p_pc = "top"
    /\ SendIdle
    /\ FragIdle
    /\ RtIdle
    /\ RecvIdle
    /\ SrvIdle
    /\ StrIdle
    /\ CfgIdle
    /\ MainIdle
    /\ TickIdle
    /\ CloseIdle
    /\ WrapIdle

\* PacketSender::on_packets_send: the connection queues n more packets, which
\* are numbered in the order they are queued
OnPacketsSend(n) ==
    /\ c_packets = <<>>
    /\ LET made == Len(c_polled) + Len(c_pending) IN
         /\ made + n <= MaxPackets
         /\ c_pending' = c_pending \o PacketRun(made + 1, made + n)
    /\ UNCHANGED <<c_packet_id, c_max_payload, c_status, c_sends, c_last, c_polled,
                   c_transmitted, c_packets, c_frags,
                   fragVars, rtVars, recvVars, srvVars, strVars, cfgVars, mainVars, pathVars, tickVars, closeVars, wrapVars>>

\* line 330 and the head of the for loop: `let packets = conn.poll_send()`
\* takes the whole queue, and `packets.into_iter().take(packet_loop_send_max)`
\* keeps its prefix for the loop; the rest of `packets` is dropped
PollSendBurst ==
    /\ c_packets = <<>>
    /\ LET packets == c_pending
           packet_loop_send_max == loop_burst_total(p_resolvers, PACKET_LOOP_SEND_MAX)
       IN /\ c_pending' = <<>>
          /\ c_polled' = c_polled \o packets
          /\ c_packets' = Take(packets, Min(Len(packets), packet_loop_send_max))
    /\ UNCHANGED <<c_packet_id, c_max_payload, c_status, c_sends, c_last, c_transmitted, c_frags,
                   fragVars, rtVars, recvVars, srvVars, strVars, cfgVars, mainVars, pathVars, tickVars, closeVars, wrapVars>>

\* lines 335-378, one iteration of the for loop: the next packet is sent as
\* DNS queries, udp.send_to awaited for each
TransmitPacket ==
    /\ c_packets # <<>>
    /\ c_transmitted' = Append(c_transmitted, Head(c_packets))
    /\ c_packets' = Tail(c_packets)
    /\ UNCHANGED <<c_packet_id, c_max_payload, c_status, c_sends, c_last, c_pending, c_polled, c_frags,
                   fragVars, rtVars, recvVars, srvVars, strVars, cfgVars, mainVars, pathVars, tickVars, closeVars, wrapVars>>

BurstNext ==
    \/ \E n \in {1, PACKET_LOOP_SEND_MAX} : OnPacketsSend(n)
    \/ PollSendBurst
    \/ TransmitPacket

BurstSpec == BurstInit /\ [][BurstNext]_vars
-----------------------------------------------------------------------------
(* Reassembly of what the sender fragments: run_client numbers its packets  *)
(* with a wrapping 16-bit counter (lines 350-352), the network loses,       *)
(* duplicates and reorders the envelopes, and a FragmentBuffer reassembles  *)
(* them (receive_fragment; run_client never calls cleanup_stale).           *)

MaxReassemblySends == 2

\* the packets the sender fragments, two envelopes each at ReassemblyMaxPayload
ReassemblyPackets == { <<1, 2>>, <<3, 4>> }
ReassemblyMaxPayload == FRAGMENT_HEADER_SIZE + 1
\* the content of the packets whose envelopes are all lost
LostPacket == <<9>>
\* the packet ids under which a packet of ReassemblyPackets is sent
ReassemblyIds == {0}

ReassemblyInit ==
    /\ in_packet = <<>> /\ in_id = 0 /\ in_max_payload = 0
    /\ envelopes = None /\ delivered = <<>> /\ results = <<>>
    /\ n_originals = {} /\ n_net = {} /\ n_emitted = {}
    /\ c_packet_id = 0 /\ c_max_payload = ReassemblyMaxPayload /\ c_status = "running"
    /\ c_sends = 0 /\ c_last = None
    /\ c_pending = <<>> /\ c_polled = <<>> /\ c_transmitted = <<>>
    /\ c_packets = <<>> /\ c_frags = <<>>
    /\ FragIdle
    /\ RecvIdle
    /\ SrvIdle
    /\ StrIdle
    /\ CfgIdle
    /\ MainIdle
    /\ PathIdle
    /\ TickIdle
    /\ CloseIdle
    /\ WrapIdle

\* lines 350-352: the packet is fragmented under the current packet id and
\* the id advances.  The packets are those of ReassemblyPackets while the
\* counter stands at one of ReassemblyIds, and LostPacket at any id.
SendFragmented(packet) ==
    /\ c_frags = <<>>
    /\ c_sends < MaxReassemblySends
    /\ packet # LostPacket => c_packet_id \in ReassemblyIds
    /\ c_frags' = fragment_packet(packet, c_packet_id, c_max_payload)
    /\ n_originals' = n_originals \cup {packet}
    /\ c_packet_id' = NextPacketId(c_packet_id)
    /\ c_sends' = IF packet = LostPacket THEN c_sends ELSE c_sends + 1
    /\ UNCHANGED <<in_packet, in_id, in_max_payload, envelopes, delivered, results,
                   n_net, n_emitted,
                   c_max_payload, c_status, c_last, c_pending, c_polled, c_transmitted, c_packets,
                   fragVars, recvVars, srvVars, strVars, cfgVars, mainVars, pathVars, tickVars, closeVars, wrapVars>>

\* lines 355-377, one turn of `for fragment in fragments`: the next envelope
\* is handed to udp.send_to; the network loses every envelope of LostPacket
SendEnvelope ==
    /\ c_frags # <<>>
    /\ c_frags' = Tail(c_frags)
    /\ n_net' = IF parse_fragment(Head(c_frags)).val.payload = LostPacket
                THEN n_net
                ELSE n_net \cup {Head(c_frags)}
    /\ UNCHANGED <<in_packet, in_id, in_max_payload, envelopes, delivered, results,
                   n_originals, n_emitted,
                   c_packet_id, c_max_payload, c_status, c_sends, c_last, c_pending, c_polled,
                   c_transmitted, c_packets,
                   fragVars, recvVars, srvVars, strVars, cfgVars, mainVars, pathVars, tickVars, closeVars, wrapVars>>

\* an envelope that was sent reaches the receiver, in any order and any
\* number of times, in the UDP arm of a later iteration's select:
\* recv_fragment_buffer.receive_fragment(&quic_payload)
ReceiveSent(data) ==
    /\ c_frags = <<>>
    /\ data \in n_net
    /\ LET r == receive_fragment(fragments, data, now) IN
         /\ fragments' = r.buf
         /\ result' = r.ret
         /\ n_emitted' = IF r.ret = None THEN n_emitted ELSE n_emitted \cup {r.ret.val}
    /\ op' = "receive_fragment"
    /\ arg' = data
    /\ before' = fragments
    /\ UNCHANGED <<in_packet, in_id, in_max_payload, envelopes, delivered, results,
                   n_originals, n_net, now,
                   sendVars, recvVars, srvVars, strVars, cfgVars, mainVars, pathVars, tickVars, closeVars, wrapVars>>

ReassemblyNext ==
    \/ \E packet \in ReassemblyPackets \cup {LostPacket} : SendFragmented(packet)
    \/ SendEnvelope
    \/ \E data \in n_net : ReceiveSent(data)

ReassemblySpec == ReassemblyInit /\ [][ReassemblyNext]_vars
-----------------------------------------------------------------------------
(* The QUIC server wrapper (slipstream-quic server.rs): ServerHandler's     *)
(* callbacks and Server::close_connection keep ServerState.connections,     *)
(* which ready_connections() and streams(conn) read.  The endpoint calls    *)
(* the callbacks while the server processes packets, the application calls  *)
(* close_connection in between.                                             *)

\* Server::ready_connections and Server::streams, as sets
ready_connections(connections) ==
    {c \in DOMAIN connections : connections[c].ready}
streams(connections, conn_id) ==
    IF conn_id \in DOMAIN connections THEN connections[conn_id].streams ELSE {}

\* ServerHandler::on_conn_established
on_conn_established(connections, conn_id) ==
    IF conn_id \in DOMAIN connections
    THEN [connections EXCEPT ![conn_id].ready = TRUE]
    ELSE MapInsert(connections, conn_id, [ready |-> TRUE, streams |-> {}])

\* ServerHandler::on_conn_closed
server_on_conn_closed(connections, conn_id) == MapRemove(connections, conn_id)

\* ServerHandler::on_stream_created: entry(conn_id).or_insert_with(ready: false)
on_stream_created(connections, conn_id, stream_id) ==
    LET with == IF conn_id \in DOMAIN connections THEN connections
                ELSE MapInsert(connections, conn_id, [ready |-> FALSE, streams |-> {}])
    IN [with EXCEPT ![conn_id].streams = @ \cup {stream_id}]

\* ServerHandler::on_stream_closed
on_stream_closed(connections, conn_id, stream_id) ==
    IF conn_id \in DOMAIN connections
    THEN [connections EXCEPT ![conn_id].streams = @ \ {stream_id}]
    ELSE connections

\* Server::close_connection.  found: the endpoint still has the connection;
\* close_ok: conn.close succeeds.  A failed conn.close returns through `?`
\* before the entry is removed.
close_connection(connections, conn_id, found, close_ok) ==
    IF found /\ ~close_ok THEN connections ELSE MapRemove(connections, conn_id)

WrapInit ==
    /\ WrapIdle
    /\ FragIdle
    /\ RtIdle
    /\ SendIdle
    /\ RecvIdle
    /\ SrvIdle
    /\ StrIdle
    /\ CfgIdle
    /\ MainIdle
    /\ PathIdle
    /\ TickIdle
    /\ CloseIdle

\* ServerHandler::on_conn_created, which only logs: the endpoint has a new
\* connection, under an index no live connection has
OnConnCreated(c) ==
    /\ c \notin w_endpoint
    /\ w_endpoint' = w_endpoint \cup {c}
    /\ w_closed' = w_closed \ {c}
    /\ UNCHANGED <<w_connections, w_established, w_created,
                   fragVars, rtVars, sendVars, recvVars, srvVars, strVars, cfgVars, mainVars, pathVars, tickVars, closeVars>>

\* the handshake of a connection that is not closed completes
OnConnEstablished(c) ==
    /\ c \in w_endpoint /\ c \notin w_closed /\ c \notin w_established
    /\ w_connections' = on_conn_established(w_connections, c)
    /\ w_established' = w_established \cup {c}
    /\ UNCHANGED <<w_endpoint, w_closed, w_created,
                   fragVars, rtVars, sendVars, recvVars, srvVars, strVars, cfgVars, mainVars, pathVars, tickVars, closeVars>>

\* the endpoint reports the end of a connection and forgets it
OnConnClosed(c) ==
    /\ c \in w_endpoint
    /\ w_connections' = server_on_conn_closed(w_connections, c)
    /\ w_endpoint' = w_endpoint \ {c}
    /\ w_established' = w_established \ {c}
    /\ w_closed' = w_closed \cup {c}
    /\ w_created' = [w_created EXCEPT ![c] = {}]
    /\ UNCHANGED <<fragVars, rtVars, sendVars, recvVars, srvVars, strVars, cfgVars, mainVars, pathVars, tickVars, closeVars>>

\* the peer opens a stream on a connection the endpoint holds, before or
\* after the handshake has completed, or while the connection is closing
OnStreamCreated(c, s) ==
    /\ c \in w_endpoint
    /\ w_connections' = on_stream_created(w_connections, c, s)
    /\ w_created' = IF c \in w_closed THEN w_created
                    ELSE [w_created EXCEPT ![c] = @ \cup {s}]
    /\ UNCHANGED <<w_endpoint, w_established, w_closed,
                   fragVars, rtVars, sendVars, recvVars, srvVars, strVars, cfgVars, mainVars, pathVars, tickVars, closeVars>>

OnStreamClosed(c, s) ==
    /\ c \in w_endpoint
    /\ w_connections' = on_stream_closed(w_connections, c, s)
    /\ w_created' = [w_created EXCEPT ![c] = @ \ {s}]
    /\ UNCHANGED <<w_endpoint, w_established, w_closed,
                   fragVars, rtVars, sendVars, recvVars, srvVars, strVars, cfgVars, mainVars, pathVars, tickVars, closeVars>>

\* the application closes connection c, which the endpoint keeps until it
\* reports on_conn_closed; when conn.close fails the call returns Err and the
\* connection does not count as closed by it
CloseConnection(c, close_ok) ==
    LET found == c \in w_endpoint IN
    /\ w_connections' = close_connection(w_connections, c, found, close_ok)
    /\ IF found /\ ~close_ok
       THEN UNCHANGED <<w_established, w_closed, w_created>>
       ELSE /\ w_established' = w_established \ {c}
            /\ w_closed' = w_closed \cup {c}
            /\ w_created' = [w_created EXCEPT ![c] = {}]
    /\ UNCHANGED <<w_endpoint,
                   fragVars, rtVars, sendVars, recvVars, srvVars, strVars, cfgVars, mainVars, pathVars, tickVars, closeVars>>

WrapNext ==
    \/ \E c \in WrapConnIds : OnConnCreated(c)
    \/ \E c \in WrapConnIds : OnConnEstablished(c)
    \/ \E c \in WrapConnIds : OnConnClosed(c)
    \/ \E c \in WrapConnIds : \E s \in WrapStreamIds : OnStreamCreated(c, s)
    \/ \E c \in WrapConnIds : \E s \in WrapStreamIds : OnStreamClosed(c, s)
    \/ \E c \in WrapConnIds : \E close_ok \in BOOLEAN : CloseConnection(c, close_ok)

WrapSpec == WrapInit /\ [][WrapNext]_vars

-----------------------------------------------------------------------------
(* Claims about FragmentBuffer *)

\* the last call was receive_fragment of a well-formed fragment whose total
\* differs from the total of the entry its packet id already had
MismatchedTotalCall ==
    /\ op = "receive_fragment"
    /\ parse_fragment(arg) # None
    /\ LET p == parse_fragment(arg).val IN
         /\ p.packet_id \in DOMAIN before
         /\ before[p.packet_id].total # p.total

\* the 0-based slots of an entry that are still empty, in ascending order
RECURSIVE MissingFrom(_, _)
MissingFrom(entry, i) ==
    IF i > Len(entry.data) THEN <<>>
    ELSE IF entry.data[i] = None THEN <<i - 1>> \o MissingFrom(entry, i + 1)
    ELSE MissingFrom(entry, i + 1)

\* the value returned by the last of the calls that feed, for each slot of
\* `slots`, a fragment with the entry's own total and payload fill
RECURSIVE FeedSlots(_, _, _, _, _)
FeedSlots(buf, id, slots, fill, t) ==
    LET r == receive_fragment(buf, Envelope(id, slots[1], buf[id].total, fill), t) IN
    IF Len(slots) = 1 THEN r.ret
    ELSE FeedSlots(r.buf, id, Tail(slots), fill, t)

\* the packet an entry completes to when its empty slots receive `fill`
RECURSIVE CompletedWith(_, _, _)
CompletedWith(entry, fill, i) ==
    IF i > Len(entry.data) THEN <<>>
    ELSE (IF entry.data[i] = None THEN fill ELSE entry.data[i].val)
         \o CompletedWith(entry, fill, i + 1)

\* C10: Mismatched total drops only the fragment.  When receive_fragment gets
\* a well-formed fragment whose total differs from the total recorded for the
\* existing entry of the same packet id, it returns None and leaves that entry
\* and every other entry unchanged, so the remaining consistent fragments
\* still complete the packet.
C10_MismatchedTotalDropsFragment ==
    MismatchedTotalCall =>
        LET id == parse_fragment(arg).val.packet_id IN
        /\ result = None
        /\ fragments = before
        /\ MissingFrom(fragments[id], 1) # <<>>
        /\ FeedSlots(fragments, id, MissingFrom(fragments[id], 1), <<7>>, now)
             = Some(CompletedWith(fragments[id], <<7>>, 1))

\* a fragment that would have filled an empty slot of the entry, had its
\* total agreed, was dropped while another packet was pending as well
C10_Witness ==
    /\ MismatchedTotalCall
    /\ LET p == parse_fragment(arg).val IN
         /\ p.total >= 1 /\ p.frag_num < p.total
         /\ p.frag_num < before[p.packet_id].total
         /\ before[p.packet_id].data[p.frag_num + 1] = None
         /\ before[p.packet_id].received >= 1
    /\ Cardinality(DOMAIN fragments) = 2

-----------------------------------------------------------------------------
(* Claims about the client's send path *)

\* C7: Oversized packets are rejected.  When a QUIC packet would require more
\* than 255 fragments (|packet| > 255*(max_payload-5)), the client's send path
\* rejects the packet and sends no fragment of it.
C7_OversizedRejected ==
    ( /\ c_last # None
      /\ c_max_payload > 5
      /\ Len(c_last.val.packet) > 255 * (c_max_payload - 5) )
    => c_last.val.sent = <<>>

\* a step that advances the counter hands one packet to fragment_packet: the
\* packet is fragmented with the current packet id, which is the previous
\* packet's id plus one modulo 2^16 (0 for the first), and the counter
\* advances by one modulo 2^16; a step that sends a fragment leaves the
\* packet and its id as they are; every fragment sent carries the id of its
\* packet and a total of at least 1
C9_Step ==
    /\ (c_packet_id' # c_packet_id) =>
        /\ c_last' # None
        /\ c_last'.val.id = c_packet_id
        /\ c_last'.val.id \in 0..65535
        /\ c_last'.val.sent = <<>>
        /\ c_packet_id' = (c_packet_id + 1) % 65536
        /\ (c_last = None => c_last'.val.id = 0)
        /\ (c_last # None => c_last'.val.id = (c_last.val.id + 1) % 65536)
    /\ (c_last' # c_last /\ c_packet_id' = c_packet_id) =>
        /\ c_last # None /\ c_last' # None
        /\ c_last'.val.packet = c_last.val.packet
        /\ c_last'.val.id = c_last.val.id
        /\ Len(c_last'.val.sent) = Len(c_last.val.sent) + 1
        /\ IsPrefix(c_last.val.sent, c_last'.val.sent)
    /\ c_last' # None =>
           \A k \in 1..Len(c_last'.val.sent) :
              LET f == c_last'.val.sent[k] IN
              /\ Len(f) >= 5
              /\ f[2] * 256 + f[3] = c_last'.val.id
              /\ f[5] >= 1

\* C9: Packet ids on the client send path.  Successive QUIC packets handed to
\* fragment_packet get packet ids that each exceed the previous one by exactly
\* 1 modulo 2^16 (starting at 0), all fragments of one packet carry the same
\* packet id, and every emitted fragment has total >= 1.
C9_PacketIds == [][C9_Step]_vars

\* the packet sent with id 65535 had several fragments and the counter wrapped to 0
C9_Witness ==
    /\ c_last # None
    /\ c_last.val.id = 65535
    /\ c_packet_id = 0
    /\ Len(c_last.val.sent) >= 2

-----------------------------------------------------------------------------
(* Claims about the client's receive path *)

\* an entry of the reassembly buffer that is 5 s old or older
Stale(id) ==
    /\ id \in DOMAIN fragments
    /\ now - fragments[id].created >= FRAGMENT_TIMEOUT_SECS

\* C8: Stale reassembly state is eventually discarded.  In the running client
\* loop an incomplete FragmentBuffer entry that never completes is removed by
\* the periodic sweep once it is older than 5 s, so every entry eventually
\* leaves the buffer.
C8_StaleEventuallyDiscarded ==
    \A id \in {1, 515} : Stale(id) ~> (id \notin DOMAIN fragments)

-----------------------------------------------------------------------------
(* Claims about the server loop *)

\* the number of responses sent for the datagram at position q of s_log
Replies(q) == Cardinality({k \in DOMAIN s_sent : s_sent[k].q = q})

\* C3: Exactly one reply per query.  For every DNS query the server receives
\* and decodes successfully, the number of responses sent for it is never
\* more than one, and is one once the server is back at the top of its loop,
\* whatever QUIC did with the carried payload.
C3_ExactlyOneReply ==
    \A q \in DOMAIN s_log :
        s_log[q].dgram.kind = "Ok" =>
            /\ Replies(q) <= 1
            /\ s_pc = "select" => Replies(q) = 1

-----------------------------------------------------------------------------
(* Claims about stream forwarding on the client *)

\* the bytes of the StreamData commands for stream s still in the channel
RECURSIVE PendingData(_, _)
PendingData(ch, s) ==
    IF ch = <<>> THEN <<>>
    ELSE (IF Head(ch).cmd = "StreamData" /\ Head(ch).stream_id = s
          THEN Head(ch).data ELSE <<>>) \o PendingData(Tail(ch), s)

\* C4: Bytes within a single stream preserve order on the client.  For every
\* stream, the bytes passed to conn.stream_write followed by the bytes still
\* queued in the command channel are exactly the bytes read from the stream's
\* TCP connection, in order; and the bytes written to the TCP connection are
\* the bytes conn.stream_read returned, in order, up to where writing
\* stands: nothing is reordered or duplicated under any interleaving of the
\* reader tasks, the writer tasks and the main loop.
C4_StreamOrder ==
    \A s \in StreamIds :
        /\ t_passed[s] \o PendingData(t_cmds, s) = t_rd[s]
        /\ t_conn[s] # 0 => IsPrefix(t_rd[s], TcpIn(t_conn[s]))
        /\ IsPrefix(t_written[s], t_returned[s])
        /\ IsPrefix(t_returned[s], QuicIn(s))

\* both streams are open, their commands were interleaved in the channel, and
\* every byte of both directions of both streams has been forwarded
C4_Witness ==
    /\ t_conn[0] = 1 /\ t_conn[4] = 2
    /\ t_passed[0] = TcpIn(1) /\ t_passed[4] = TcpIn(2)
    /\ t_written[0] = QuicIn(0) /\ t_written[4] = QuicIn(4)
    /\ t_cmds = <<>>

-----------------------------------------------------------------------------
(* Claims about client start-up *)

\* the resolver options of the command line, in textual order
RECURSIVE ResolverOptions(_)
ResolverOptions(matches) ==
    IF matches = <<>> THEN <<>>
    ELSE (IF Head(matches).flag \in {"resolver", "authoritative"}
          THEN <<Head(matches)>> ELSE <<>>) \o ResolverOptions(Tail(matches))

\* C6: Ordered-resolver preservation.  For any interleaved sequence of
\* --resolver and --authoritative arguments, build_resolvers returns the
\* resolvers in the textual order of the command line, each Recursive if it
\* came from --resolver and Authoritative if it came from --authoritative;
\* the first argument of either flag comes first.
C6_OrderedResolvers ==
    (g_built # Pending /\ ResolverOptions(g_matches) # <<>>) =>
        LET opts == ResolverOptions(g_matches) IN
        /\ g_built.tag = "Ok"
        /\ Len(g_built.val) = Len(opts)
        /\ \A i \in DOMAIN opts :
              /\ g_built.val[i].resolver = opts[i].value
              /\ g_built.val[i].mode =
                    IF opts[i].flag = "resolver" THEN "Recursive" ELSE "Authoritative"

\* an --authoritative before a --resolver, with another option in between
C6_Witness ==
    /\ g_built # Pending
    /\ Len(g_matches) = 4
    /\ g_matches[1].flag = "authoritative"
    /\ g_matches[2].flag = "domain"
    /\ g_matches[3].flag = "resolver"
    /\ g_matches[4].flag = "authoritative"
    /\ g_built.tag = "Ok" /\ Len(g_built.val) = 3
    /\ g_built.val[1].mode = "Authoritative" /\ g_built.val[2].mode = "Recursive"

\* the normalized address of a spec, if it resolves
NormalizedAddr(spec) ==
    LET r == resolve_host_port(spec.resolver) IN
    IF r.tag = "Ok" THEN Some(normalize_dual_stack_addr(r.val)) ELSE None
AllResolve(specs) == \A i \in DOMAIN specs : NormalizedAddr(specs[i]) # None
HasDuplicate(specs) ==
    \E i, j \in DOMAIN specs :
        i < j /\ NormalizedAddr(specs[i]) # None
              /\ NormalizedAddr(specs[i]) = NormalizedAddr(specs[j])

\* what resolve_resolvers returns when it returns Ok: one ResolverState per
\* spec, in input order, with pairwise distinct addresses
OnePerSpec(specs, resolved) ==
    /\ resolved.tag = "Ok"
    /\ Len(resolved.val) = Len(specs)
    /\ \A i \in DOMAIN specs :
          /\ Some(resolved.val[i].addr) = NormalizedAddr(specs[i])
          /\ resolved.val[i].mode = specs[i].mode
    /\ \A i, j \in DOMAIN specs :
          i # j => resolved.val[i].addr # resolved.val[j].addr

\* C5 as stated: Duplicate resolver rejection.  resolve_resolvers returns the
\* 'Duplicate resolver address' error whenever two specs resolve to the same
\* socket address after dual-stack normalization; otherwise it returns one
\* ResolverState per spec, in input order, with pairwise distinct addresses.
C5_DuplicateOrOnePerSpec ==
    v_resolved # Pending =>
        IF HasDuplicate(v_specs)
        THEN v_resolved = Err("Duplicate resolver address")
        ELSE OnePerSpec(v_specs, v_resolved)

\* the spec at position i does not resolve, or resolves to the normalized
\* address of an earlier spec
Unresolved(specs, i) == NormalizedAddr(specs[i]) = None
RepeatsEarlier(specs, i) ==
    /\ NormalizedAddr(specs[i]) # None
    /\ \E j \in 1..(i - 1) : NormalizedAddr(specs[j]) = NormalizedAddr(specs[i])
Rejected(specs) == {i \in DOMAIN specs : Unresolved(specs, i) \/ RepeatsEarlier(specs, i)}
FirstRejected(specs) == CHOOSE i \in Rejected(specs) : \A k \in Rejected(specs) : i <= k

\* C5: Duplicate resolver rejection.  resolve_resolvers takes the specs in
\* input order and returns an error at the first spec that does not resolve
\* (the resolution error) or that resolves to the same socket address after
\* dual-stack normalization as an earlier spec (the 'Duplicate resolver
\* address' error, whatever the modes, also for an IPv4 address and its
\* v4-mapped IPv6 form); so when every spec resolves, the Duplicate error is
\* returned whenever two specs resolve to the same address.  When no spec is
\* rejected it returns one ResolverState per spec, in input order, with
\* pairwise distinct addresses.
C5_DuplicateRejected ==
    v_resolved # Pending =>
        /\ IF Rejected(v_specs) = {}
           THEN OnePerSpec(v_specs, v_resolved)
           ELSE IF Unresolved(v_specs, FirstRejected(v_specs))
           THEN v_resolved = resolve_host_port(v_specs[FirstRejected(v_specs)].resolver)
           ELSE v_resolved = Err("Duplicate resolver address")
        /\ (AllResolve(v_specs) /\ HasDuplicate(v_specs))
               => v_resolved = Err("Duplicate resolver address")

\* an IPv4 spec and the v4-mapped IPv6 form of the same address, with
\* different modes and a distinct resolver in between, are rejected
C5_Witness ==
    /\ v_resolved = Err("Duplicate resolver address")
    /\ Len(v_specs) = 3
    /\ v_specs[1].resolver = HostPort("127.0.0.1", 8853, "V4")
    /\ v_specs[2].resolver = HostPort("10.0.0.1", 8853, "V4")
    /\ v_specs[3].resolver = HostPort("::ffff:127.0.0.1", 8853, "V6")
    /\ v_specs[1].mode # v_specs[3].mode

-----------------------------------------------------------------------------
(* Claims about FragmentBuffer: duplicates *)

\* the number of filled slots of an entry
Filled(entry) == Cardinality({i \in DOMAIN entry.data : entry.data[i] # None})

\* the last call was receive_fragment of a fragment whose slot, in the entry
\* of its packet id and with the entry's total, was already filled
DuplicateCall ==
    /\ op = "receive_fragment"
    /\ parse_fragment(arg) # None
    /\ LET p == parse_fragment(arg).val IN
         /\ p.packet_id \in DOMAIN before
         /\ before[p.packet_id].total = p.total
         /\ p.frag_num < p.total
         /\ before[p.packet_id].data[p.frag_num + 1] # None

\* C11: Duplicate fragments are ignored.  After any sequence of
\* receive_fragment calls every pending entry has exactly `total` slots, its
\* received count equals the number of filled slots and is below total; a
\* fragment whose slot is already filled changes neither the stored bytes nor
\* the count; and a packet is emitted only by a fragment that fills the last
\* empty slot of its entry, never by a duplicate.
C11_DuplicatesIgnored ==
    /\ \A id \in DOMAIN fragments :
          /\ Len(fragments[id].data) = fragments[id].total
          /\ fragments[id].received = Filled(fragments[id])
          /\ fragments[id].received < fragments[id].total
    /\ DuplicateCall => (fragments = before /\ result = None)
    /\ (op = "receive_fragment" /\ result # None) =>
          LET p == parse_fragment(arg).val IN
          IF p.packet_id \in DOMAIN before
          THEN LET e == before[p.packet_id] IN
               /\ e.total = p.total
               /\ e.data[p.frag_num + 1] = None
               /\ \A i \in 1..e.total : i # p.frag_num + 1 => e.data[i] # None
          ELSE p.total = 1

\* a duplicate of a stored fragment arrived with other bytes, and the entry
\* still holds the bytes stored first
C11_Witness ==
    /\ DuplicateCall
    /\ LET p == parse_fragment(arg).val IN
         /\ p.total = 3
         /\ before[p.packet_id].received = 2
         /\ before[p.packet_id].data[p.frag_num + 1] # Some(p.payload)
         /\ fragments[p.packet_id].data[p.frag_num + 1] # Some(p.payload)

-----------------------------------------------------------------------------
(* Claims about fragment detection *)

\* C12: Fragment detection.  For every byte string b, is_fragmented(b) is
\* true exactly when |b| >= 5 and b[0] = 0x53, and false otherwise.
C12_FragmentDetection ==
    op = "is_fragmented" =>
        result = Some(Len(arg) >= 5 /\ arg[1] = 83)

\* a header-only envelope, the shortest byte string that is a fragment
C12_Witness ==
    /\ op = "is_fragmented"
    /\ Len(arg) = 5 /\ arg[1] = 83
    /\ result = Some(TRUE)

-----------------------------------------------------------------------------
(* Claims about address normalization *)

\* C13: Dual-stack normalization.  normalize_dual_stack_addr maps every IPv4
\* socket address (a, p) to the IPv6 address (::ffff:a, p) with flowinfo and
\* scope id 0, returns every IPv6 address unchanged, and is idempotent; the
\* client's and the server's implementations agree on every input.
C13_Normalization ==
    op = "normalize" =>
        LET r == result.val IN
        /\ arg.fam = "V4" =>
              r.client = [fam |-> "V6",
                          ip |-> <<0, 0, 0, 0, 0, 0, 0, 0, 0, 0, 255, 255>> \o arg.ip,
                          port |-> arg.port, flowinfo |-> 0, scope_id |-> 0]
        /\ arg.fam = "V6" => r.client = arg
        /\ r.client_twice = r.client
        /\ r.server = r.client
        /\ r.server_twice = r.server

\* an IPv4 address was mapped to the address that the v4-mapped IPv6 input
\* of the same host and port is left at
C13_Witness ==
    /\ op = "normalize"
    /\ arg = [fam |-> "V4", ip |-> <<127, 0, 0, 1>>, port |-> 53,
              flowinfo |-> 0, scope_id |-> 0]
    /\ result.val.client.fam = "V6"
    /\ result.val.client.ip = <<0, 0, 0, 0, 0, 0, 0, 0, 0, 0, 255, 255, 127, 0, 0, 1>>
    /\ result.val.server = result.val.client

-----------------------------------------------------------------------------
(* Claims about the poll budget *)

\* the result is at least 1 and is the least n >= 1 with n * mtu >= cwnd
TargetIsCeiling ==
    LET cwnd == arg[1]
        mtu == arg[2]
        n == result.val
    IN /\ n >= 1
       /\ n * mtu >= cwnd
       /\ n > 1 => (n - 1) * mtu < cwnd

\* C14 (as stated): Poll budget.  For all cwnd >= 0 and mtu > 0,
\* cwnd_target_polls(cwnd, mtu) = max(1, ceil(cwnd / mtu)) is at least 1, and
\* for every integer k >= 0, cwnd_target_polls(k*mtu, mtu) = k.
C14_PollBudgetFromZero ==
    op = "cwnd_target_polls" =>
        /\ TargetIsCeiling
        /\ \A k \in 0..arg[1] : arg[1] = k * arg[2] => result.val = k

\* C14 (amended): Poll budget.  For all cwnd >= 0 and mtu > 0,
\* cwnd_target_polls(cwnd, mtu) = max(1, ceil(cwnd / mtu)) is at least 1, and
\* for every integer k >= 1, cwnd_target_polls(k*mtu, mtu) = k; for k = 0 the
\* result is 1.
C14_PollBudget ==
    op = "cwnd_target_polls" =>
        /\ TargetIsCeiling
        /\ \A k \in 1..arg[1] : arg[1] = k * arg[2] => result.val = k
        /\ arg[1] = 0 => result.val = 1

\* an exact multiple of the mtu: three packets of 1200 bytes
C14_Witness ==
    /\ op = "cwnd_target_polls"
    /\ arg = <<3600, 1200>>
    /\ result = Some(3)


-----------------------------------------------------------------------------
(* Claims about the client's exit code *)

\* the statements of main and run_client at which a configuration error
\* (command line, resolver list, domain) ends the process
ConfigExits == { "clap", "build_resolvers", "compute_mtu", "resolve_resolvers", "no resolver" }
\* two resolvers of the command line name one socket address
DuplicateOnCommandLine ==
    /\ g_built # Pending /\ g_built.tag = "Ok"
    /\ AllResolve(g_built.val) /\ HasDuplicate(g_built.val)

\* C15: Configuration errors exit with code 2.  Every configuration error of
\* the client, a duplicate resolver address found while resolving the resolver
\* list and an invalid resolver host or port included, ends the process with
\* exit code 2 at startup; runtime errors end it with 1 and a normal end with 0.
C15_ConfigErrorsExitWith2 ==
    m_exit # None =>
        /\ m_exit.val.at \in ConfigExits => m_exit.val.code = 2
        /\ m_exit.val.at \in {"setup", "loop", "close"} => m_exit.val.code = 1
        /\ m_exit.val.at = "end" => m_exit.val.code = 0
        /\ DuplicateOnCommandLine => m_exit.val.code = 2


-----------------------------------------------------------------------------
(* Claims about the client loop's wait *)

\* C16: Wake timeout bounds.  In every tick of the client loop the wait equals
\* clamp(QUIC-next-timeout, 1 us, 50 ms) when has_work is true and
\* clamp(QUIC-next-timeout, 1 us, 10 s) otherwise, so the loop never waits
\* less than 1 us, never more than 50 ms while busy and never more than 10 s
\* while idle, whatever timeout the QUIC library reports.
C16_WakeTimeoutBounds ==
    op = "wake_timeout" =>
        LET t == delay_us(arg[1])
            work == arg[2]
        IN /\ result.val = clamp(t, 1, IF work THEN DNS_POLL_SLICE_US
                                       ELSE DNS_WAKE_DELAY_MAX_US)
           /\ result.val >= 1
           /\ work => result.val <= DNS_POLL_SLICE_US
           /\ ~work => result.val <= DNS_WAKE_DELAY_MAX_US


-----------------------------------------------------------------------------
(* Claims about the server's shutdown *)


-----
(* Claims about the server's responses *)

\* C18: Response echo.  Every DNS response the server sends carries the id,
\* question, RD and CD of the query that created its slot and is sent to that
\* query's peer address, dual-stack normalized; a response is never built from
\* the fields of another query of the same receive burst.
C18_ResponseEcho ==
    \A k \in DOMAIN s_sent :
        LET r == s_sent[k]
            d == s_log[r.q].dgram
        IN /\ r.q \in DOMAIN s_log
           /\ r.id = d.id /\ r.rd = d.rd /\ r.cd = d.cd
           /\ Some(r.question) = d.question
           /\ r.peer = normalize_dual_stack_addr(d.peer)
           /\ \A j \in DOMAIN s_sent : j # k => s_sent[j].q # r.q

\* two queries of one burst with the same id, different questions, RD, CD and
\* peers (one IPv4, one IPv6) have both been answered
C18_Witness ==
    /\ Len(s_sent) = 2 /\ s_sent[1].q = 1 /\ s_sent[2].q = 2
    /\ s_log[1].first /\ ~s_log[2].first
    /\ s_log[1].dgram.id = s_log[2].dgram.id
    /\ s_log[1].dgram.rd # s_log[2].dgram.rd
    /\ s_log[1].dgram.cd # s_log[2].dgram.cd
    /\ s_log[1].dgram.question # s_log[2].dgram.question
    /\ s_log[1].dgram.peer = PeerA /\ s_log[2].dgram.peer = PeerB


-----------------------------------------------------------------------------
(* Claims about socket errors *)

\* C19: Transient socket errors never stop a loop.  A WouldBlock or
\* Interrupted result of any UDP receive of the loop, the awaited first receive
\* as well as the non-blocking receives of the burst, is retried or skipped and
\* the loop keeps running; only other I/O errors end the process.
C19_TransientErrorsSkipped ==
    (s_exit # None /\ s_exit.val.at \in {"recv_from", "try_recv_from"}) =>
        s_exit.val.kind \notin {"WouldBlock", "Interrupted"}


-----------------------------------------------------------------------------
(* Claims about the life of a path: probing, polls *)

\* how often probe_path was called for position i
RECURSIVE Count(_, _)
Count(calls, i) ==
    IF calls = <<>> THEN 0
    ELSE (IF Head(calls) = i THEN 1 ELSE 0) + Count(Tail(calls), i)

\* C23: Probe accounting.  Each call of probe_path for a resolver increments
\* its probe_attempts by exactly 1: probe_attempts equals the number of
\* probes issued for the resolver (no path is reset: no event is drained).
C23_ProbeAccounting ==
    \A i \in DOMAIN p_resolvers :
        p_resolvers[i].probe_attempts = Count(p_calls, i)

\* C24: Probing starts at readiness.  probe_path is never called before the
\* QUIC connection is ready and never for the primary resolver, and in the
\* tick where the loop first sees the connection ready it is called for every
\* non-primary resolver not yet added, in order.
C24_ProbingStartsAtReadiness ==
    /\ p_conn = "handshake" => p_calls = <<>>
    /\ ~p_ready => p_calls = <<>>
    /\ \A k \in DOMAIN p_calls : p_calls[k] # 1
    /\ p_ready => p_calls = [k \in 1..(Len(p_resolvers) - 1) |-> k + 1]

\* the largest resolver list, the connection is ready, every secondary was
\* probed and the probe of the last one succeeded
C24_Witness ==
    /\ p_ready /\ Len(p_resolvers) = MaxResolvers
    /\ p_calls = [k \in 1..(MaxResolvers - 1) |-> k + 1]
    /\ p_probed[MaxResolvers] # None

\* C25: Re-probing.  A secondary path that is Fresh again (its probe failed,
\* or a Deleted event reset it) gets a next_probe_at later than now and is
\* probed again: while the connection stays ready it eventually re-enters
\* Probing instead of staying Fresh forever.
C25_FreshIsProbedAgain ==
    \A i \in 2..MaxResolvers :
        (/\ p_ready /\ i \in DOMAIN p_resolvers
         /\ ~p_resolvers[i].added /\ p_resolvers[i].path_id_tquic = None)
        ~> (Count(p_calls, i) >= 2)

\* C26: Poll top-up.  In every tick, for each installed authoritative path
\* whose outstanding polls are below its budget (the budget is at least 1),
\* the client emits poll queries up to the budget and records each id in the
\* path's inflight_poll_ids: after a completed tick an installed
\* authoritative path has polls in flight.
C26_PollTopUp ==
    p_ticks >= 1 =>
        \A i \in DOMAIN p_resolvers :
            (p_resolvers[i].added /\ p_resolvers[i].mode = "Authoritative") =>
                p_resolvers[i].inflight_poll_ids # <<>>


-----------------------------------------------------------------------------
(* Claims about the expiry of in-flight polls *)

\* C27: Poll expiry.  For every map and every time now, expire_inflight_polls
\* removes exactly the ids sent 5 s or more before now and keeps every younger
\* entry with its send time, also when now is smaller than 5 s; only the maps
\* of authoritative resolvers are expired.
C27_PollExpiry ==
    op = "expire_inflight_polls" =>
        LET map == arg[1].inflight_poll_ids
            young == {id \in DOMAIN map : map[id] + AUTHORITATIVE_POLL_TIMEOUT_US > arg[2]}
        IN /\ arg[1].mode = "Authoritative" =>
                  result.val.inflight_poll_ids = Retain(map, young)
           /\ arg[1].mode # "Authoritative" => result.val = arg[1]


-----------------------------------------------------------------------------
(* Claims about has_work *)

\* C28: has_work.  In every tick has_work is true exactly when a stream
\* exists, or some path has pending polls, or some authoritative path has
\* in-flight poll ids; a client with no streams, no pending polls and no
\* in-flight polls is idle and waits under the long (10 s) ceiling.
C28_HasWork ==
    op = "has_work" =>
        LET busy == \/ arg[1] > 0
                    \/ \E i \in DOMAIN arg[2] : arg[2][i].pending_polls > 0
                    \/ \E i \in DOMAIN arg[2] :
                          /\ arg[2][i].mode = "Authoritative"
                          /\ arg[2][i].inflight_poll_ids # <<>>
        IN /\ result.val.has_work <=> busy
           /\ ~busy => result.val.timeout_us =
                          clamp(delay_us(arg[3]), 1, DNS_WAKE_DELAY_MAX_US)


-----------------------------------------------------------------------------
(* Claims about the order of writes and emission in one iteration *)

\* C29: Writes before emission.  Within one iteration every command that is in
\* the command channel when the drain starts is handled before conn.poll_send
\* is called: at each poll_send call none of them is left, and while the
\* loop stands between iterations none is left either.
C29_WritesBeforeEmission ==
    /\ \A k \in DOMAIN k_polls : k_polls[k].left = <<>>
    /\ (k_pc = "select" /\ k_ticks > 0) => k_queued = <<>>

\* poll_send was called after a drain that handled two commands which were
\* queued when it started, a StreamData among them
C29_Witness ==
    /\ \E k \in DOMAIN k_polls : k_polls[k].handled >= 2
    /\ \E s \in StreamIds : t_passed[s] # <<>>


-----------------------------------------------------------------------------
(* Claims about the classification of received payloads *)

\* a payload that starts with the magic byte and whose header is well-formed
WellFormedEnvelope(p) ==
    /\ Len(p) >= FRAGMENT_HEADER_SIZE
    /\ p[1] = FRAGMENT_MAGIC
    /\ p[5] >= 1 /\ p[4] < p[5]

\* C30: Envelope classification on receive.  A decoded carrier payload is
\* handled as a fragment envelope only if it starts with 0x53 and its header
\* is well-formed (total >= 1 and frag_num < total); every other payload,
\* also one that starts with 0x53 but has total = 0 or frag_num >= total, is
\* passed to conn.recv as a raw QUIC datagram.
C30_EnvelopeClassification ==
    (r_pc = "post" /\ decode_response(arg) # None) =>
        LET p == decode_response(arg).val IN
        IF WellFormedEnvelope(p)
        THEN /\ p[5] = 1 => r_quic = <<SubSeq(p, FRAGMENT_HEADER_SIZE + 1, Len(p))>>
             /\ p[5] > 1 => r_quic = <<>> /\ fragments # EmptyBuffer
        ELSE r_quic = <<p>>


-----------------------------------------------------------------------------
(* Claims about what a slot is answered with *)

\* C31: Slot answer rule.  For a slot created from a valid query the server
\* asks QUIC for a packet of that slot's connection and path, and the
\* response carries that packet when one is available and is NOERROR with an
\* empty payload otherwise; for a slot created from a decode error QUIC is
\* never asked and the response carries that error rcode and no payload.
C31_SlotAnswerRule ==
    \A k \in DOMAIN s_sent :
        LET r == s_sent[k]
            d == s_log[r.q].dgram
            incoming == s_log[r.q].incoming
        IN IF d.kind = "Ok"
           THEN /\ r.prepare # None
                /\ r.prepare.val.cnx = incoming.first_cnx
                /\ r.prepare.val.path_id = incoming.first_path
                /\ IF r.prepare.val.send_length > 0
                   THEN r.payload = Some(r.prepare.val.bytes)
                   ELSE r.payload = None /\ r.rcode = Some("Ok")
           ELSE /\ r.prepare = None
                /\ r.payload = None
                /\ r.rcode = d.rcode

\* one burst answered three ways: a query of connection 2 with the packet
\* prepared for its path 1, a query of connection 1 with NOERROR and no
\* payload, and a refused query with its error rcode
C31_Witness ==
    \E i, j, k \in DOMAIN s_sent :
        /\ s_sent[i].prepare # None /\ s_sent[i].prepare.val.cnx = 2
        /\ s_sent[i].prepare.val.path_id = 1 /\ s_sent[i].payload # None
        /\ s_sent[j].prepare # None /\ s_sent[j].prepare.val.cnx = 1
        /\ s_sent[j].payload = None /\ s_sent[j].rcode = Some("Ok")
        /\ s_sent[k].prepare = None /\ s_sent[k].rcode = Some("Refused")


-----------------------------------------------------------------------------
(* Claims about the TCP reader task *)

\* no command of stream s follows a terminal command of s in the channel
RECURSIVE NothingAfterTerminal(_, _, _)
NothingAfterTerminal(ch, s, ended) ==
    \/ ch = <<>>
    \/ Head(ch).cmd = "NewStream" /\ NothingAfterTerminal(Tail(ch), s, ended)
    \/ /\ Head(ch).cmd # "NewStream"
       /\ Head(ch).stream_id = s => ~ended
       /\ NothingAfterTerminal(Tail(ch), s,
              ended \/ (Head(ch).stream_id = s
                        /\ Head(ch).cmd \in {"StreamClosed", "StreamReadError"}))

\* C32: TCP reader protocol.  The reader task of a stream sends StreamData
\* commands in read order, each of at least one byte and at most one read
\* buffer; then exactly one terminal command, StreamClosed after a read of
\* length zero or StreamReadError after a read error, with which it ends; it
\* sends nothing for the stream afterwards; and a read that was interrupted is
\* retried and sends no command.
C32_ReaderProtocol ==
    /\ [](\A s \in StreamIds :
            /\ t_term[s] <= 1
            /\ t_late[s] = 0
            /\ t_reader[s] = "done" <=> t_term[s] = 1
            /\ NothingAfterTerminal(t_cmds, s, FALSE)
            /\ t_passed[s] \o PendingData(t_cmds, s) = t_rd[s]
            /\ t_conn[s] # 0 => IsPrefix(t_rd[s], TcpIn(t_conn[s]))
            /\ \A i \in 1..Len(t_cmds) :
                   (t_cmds[i].cmd = "StreamData" /\ t_cmds[i].stream_id = s)
                       => Len(t_cmds[i].data) \in 1..STREAM_READ_CHUNK_BYTES)
    /\ [][\A s \in StreamIds :
              t_retries'[s] # t_retries[s]
                  => t_cmds' = t_cmds /\ t_reader'[s] = "running"]_vars

\* the reader of stream 0 had a read interrupted, then read all the bytes of
\* its connection in two chunks, which are in the channel in read order ahead
\* of the one terminal command it ended with
C32_Witness ==
    /\ t_conn[0] = 1 /\ t_retries[0] > 0
    /\ t_term[0] = 1 /\ t_reader[0] = "done"
    /\ t_passed[0] = <<>>
    /\ t_cmds = << [cmd |-> "StreamData", stream_id |-> 0, data |-> <<1, 2>>],
                   [cmd |-> "StreamData", stream_id |-> 0, data |-> <<3>>],
                   [cmd |-> "StreamClosed", stream_id |-> 0] >>

-----------------------------------------------------------------------------
(* Claims about the TCP writer task and the stream map *)

\* C33: Write failures are reported.  Once the writer task of a stream has
\* ended on a failed TCP write, a StreamWriteError command for the stream is in
\* the command channel, or the loop has handled it and removed the stream's
\* state.
C33_WriteFailuresReported ==
    \A s \in StreamIds :
        t_writer[s] \in {"failed", "failed_done"} =>
            \/ s \notin t_streams
            \/ \E i \in 1..Len(t_cmds) :
                   t_cmds[i] = [cmd |-> "StreamWriteError", stream_id |-> s]

\* the bytes the loop has placed on the writer channel of stream s, less the
\* bytes the StreamWriteDrained commands for s have reported
QueuedBytes(s) == Len(t_handed[s]) - t_drained[s]

\* C34: queued_bytes accounting.  For every stream in the stream map,
\* queued_bytes is the number of bytes the loop has handed to the stream's
\* writer channel less the bytes reported by StreamWriteDrained for the
\* stream, and it is never negative.
C34_QueuedBytes ==
    \A s \in t_streams :
        /\ t_queued[s] >= 0
        /\ t_queued[s] = QueuedBytes(s)

\* C39: No inbound stream bytes are discarded.  While the writer task of a
\* stream is alive, every byte conn.stream_read has returned for the stream has
\* been placed on its writer channel, also after StreamClosed was handled or a
\* StreamData write failed.
C39_NoInboundDiscard ==
    \A s \in StreamIds :
        t_writer[s] = "running" => t_handed[s] = t_returned[s]

-----------------------------------------------------------------------------
(* Claims about the end of the connection *)

\* C35: Client termination on close.  Once the connection has reported
\* closing, the loop handles no further command and no further datagram; and
\* when run_client has returned without an I/O error of the loop, the
\* connection was closing, conn.close was called once and the result is Ok(0).
C35_ClientTermination ==
    /\ e_after = [commands |-> 0, datagrams |-> 0]
    /\ (e_pc = "returned" /\ e_ret \notin {Some(Err(m)) : m \in LoopErrors}) =>
           /\ e_closing
           /\ e_close_calls = 1
           /\ e_ret = Some(Ok(0))

-----------------------------------------------------------------------------
(* Claims about the burst cap of the send loop *)

\* C37: No outgoing packet is lost to the burst cap.  Every packet that
\* conn.poll_send has returned was transmitted, in order, or is deferred: the
\* packets returned and not yet transmitted are still queued, ahead of the
\* newer ones, for a later tick (once the send loop of the iteration is over).
C37_NoPacketLostToBurstCap ==
    /\ IsPrefix(c_transmitted, c_polled)
    /\ c_packets = <<>> => IsPrefix(Drop(c_polled, Len(c_transmitted)), c_pending)

-----------------------------------------------------------------------------
(* Claims about reassembly of the sender's packets *)

\* C38: Reassembly emits only original packets.  Whatever the network loses,
\* duplicates or reorders, every packet receive_fragment emits is one of the
\* packets the sender passed to fragment_packet, byte for byte.
C38_ReassemblyEmitsOriginals == n_emitted \subseteq n_originals

-----------------------------------------------------------------------------
(* Claims about the QUIC server wrapper *)

\* C40: QUIC server wrapper bookkeeping.  Under any interleaving of the
\* callbacks and close_connection calls, ready_connections() is exactly the
\* set of connections established and not closed since, streams(conn) is
\* exactly the set of streams created and not closed on a connection that is
\* not closed, and there is no entry for a closed connection.
C40_WrapperBookkeeping ==
    /\ ready_connections(w_connections) = w_established
    /\ \A c \in WrapConnIds : streams(w_connections, c) = w_created[c]
    /\ \A c \in w_closed : c \notin DOMAIN w_connections

====
